---- MODULE Spec2Model ----
\* Model of the MIR taint data-flow checker of untrusted_value_taint_checker:
\* the dependency graph built by DataFlowTaintTracker::add_data_dependency_edge
\* (analysis/mir/data_flow.rs) and the three phases of check_data_flow
\* (analysis/mir/data_flow_checker.rs): classification scan, breadth-first
\* saturation, and the per-source walk that records the taint problems.
EXTENDS Integers, Sequences, FiniteSets, TLC

\* ------------------------------------------------------------------ bounds
\* Number of add_data_dependency_edge calls made while the graph is built.
MaxCalls == 3

\* ------------------------------------------------------------- node values
\* DependencyGraphNode (data_flow.rs:12-20).  Every value carries all fields
\* so that structural equality (derive(PartialEq, Eq, Hash)) is record equality.
NoFn == [fndef |-> FALSE, path |-> "", generics |-> <<>>]

FnDef(path, generics) == [fndef |-> TRUE, path |-> path, generics |-> generics]

Local(dst, ty) ==
    [kind |-> "Local", dst |-> dst, ty |-> ty, function |-> NoFn, span |-> 0,
     spans |-> <<>>]

FunctionCall(function, span) ==
    [kind |-> "FunctionCall", dst |-> 0, ty |-> "", function |-> function,
     span |-> span, spans |-> <<>>]

ReturnedToCaller ==
    [kind |-> "ReturnedToCaller", dst |-> 0, ty |-> "", function |-> NoFn, span |-> 0,
     spans |-> <<>>]

FunctionInput ==
    [kind |-> "FunctionInput", dst |-> 0, ty |-> "", function |-> NoFn, span |-> 0,
     spans |-> <<>>]

Assembly(spans) ==
    [kind |-> "Assembly", dst |-> 0, ty |-> "", function |-> NoFn, span |-> 0,
     spans |-> spans]

ControlFlow ==
    [kind |-> "ControlFlow", dst |-> 0, ty |-> "", function |-> NoFn, span |-> 0,
     spans |-> <<>>]

\* The names check_data_flow compares against (data_flow_checker.rs:45,53,56,68).
UntrustedValueTy == "untrusted_value::UntrustedValue"
WrapFn == "untrusted_value::UntrustedValue::wrap"
FromFn == "std::convert::From::from"
IntoFn == "std::convert::Into::into"

\* The calls and locals of the analysed bodies.
EnvVarCall == FunctionCall(FnDef("std::env::var", <<>>), 101)
WrapCall == FunctionCall(FnDef(WrapFn, <<"String">>), 102)
LocalA == Local(1, "String")
LocalB == Local(2, "String")
LocalK == Local(3, UntrustedValueTy)

\* Nodes that occur as the origin of an edge, and nodes that occur as its end.
FromValues == {EnvVarCall, LocalA, LocalB, LocalK}

ToValues ==
    {EnvVarCall, WrapCall, LocalA, LocalB, LocalK,
     ReturnedToCaller, ControlFlow, Assembly(<<103>>), FunctionInput}

Move == "Move"
Used == "Used"
EdgeDataFlowType == {Move, Used}

\* ------------------------------------------------------- the source catalog
\* TaintSource (taint_source.rs:10-14): function names and a description.
EnvSource == [functions |-> <<"std::env::var", "std::env::args">>, description |-> "env"]
ProcSource == [functions |-> <<"std::env::var">>, description |-> "process"]
WrapSource == [functions |-> <<WrapFn>>, description |-> "wrap"]

\* The catalogs handed to check_data_flow: one descriptor; the same descriptor
\* twice (execute_build_plan with two prefixes matching it); two descriptors
\* naming the same function; a descriptor naming the wrapper constructor.
Catalogs ==
    { <<EnvSource>>, <<EnvSource, EnvSource>>, <<EnvSource, ProcSource>>,
      <<WrapSource, EnvSource>> }

VARIABLES
    data_dependency_graph,       \* [nodes: Seq(node value), edges: Seq(edge)]
    data_dependency_graph_index, \* node value -> node index
    calls,                       \* add_data_dependency_edge calls made
    call_log,                    \* the arguments of these calls, in call order
    current_body,                \* the MIR body the visitor goes through
    location,                    \* the statement or terminator visited next
    pc,                          \* build, scan, saturate, first, walk, done, panic
    taint_sources,               \* the active catalog
    index,                       \* node index of the classification scan
    cat,                         \* 0: type tests; j > 0: catalog entry j
    markings,                    \* node value -> Marking
    sources,                     \* Vec<NodeIndex>
    queue,                       \* saturation queue, then the walk's queue
    cur,                         \* position in sources of the walk
    visited,
    edges_traversed,
    taint_source_span,
    taint_problems,
    problem_source,              \* per problem: the source node it was reported for
    \* execute_build_plan, the choice of the active catalog (cargo.rs:27-57)
    taint_source_definitions,    \* get_taint_sources_definitions()
    args,                        \* Args: taint_sources, list_taint_sources, output_format
    actual_used_taint_sources,
    cpc,                         \* idle, args, selected, error
    \* the sanitize_value the derive macro generates (sanitize_value.rs:54-112)
    harden_sanitize,             \* cfg(feature = "harden_sanitize")
    field_sanitizers,            \* per field: what its sanitize_value returns
    create_struct,               \* the statements generated for the body
    ip,                          \* the statement executed next
    called,                      \* the fields whose sanitizer has been called
    locals,                      \* harden: the results bound to the field names
    sanitize_result,             \* "running", or what sanitize_value returned
    \* execute_build_plan, the loop over the invocations (cargo.rs:59-276)
    build_plan,                  \* the invocations, each with its crate's functions;
                                 \* a build script changes args and env of the next
    current,                     \* the position i of the invocation at hand
    functions,                   \* mir_analysis: the functions not yet analysed
    callback_taint_problems,     \* callbacks.taint_problems: FunctionInfo -> problems
    analysed,                    \* every analysis made: invocation, function, outcome
    results,                     \* Vec<ProgramOutput>
    json,                        \* the results in their serialised form
    stdout,                      \* what execute_build_plan has printed
    dpc,                         \* idle, start, invocation, function, finished,
                                 \* written, waiting, panicked, aborted, and the
                                 \* errors
                                 \* err_io, err_build_script, err_env_format,
                                 \* err_link_arg_format, err_hardlink, err_compiler
    \* InvocationEnvironment (invocation_environment.rs)
    process_env,                 \* the environment variables of the process
    process_cwd,                 \* the working directory of the process
    environment,                 \* the guard enter returned
    entered,                     \* the invocation and the process state at enter
    epc,                         \* outside, entered, dropped, panicked (enter or
                                 \* the drop panicked), aborted (a panic while
                                 \* unwinding)
    \* a collection of TaintProblem in its structured form (taint_problem.rs)
    collection,                  \* Vec<TaintProblem>
    structured,                  \* the JSON text of the Vec<TaintProblemOwned>
    read_back,                   \* the Vec<TaintProblemOwned> read from it
    rpc                          \* idle, found, written, read

engineVars ==
    <<data_dependency_graph, data_dependency_graph_index, calls, call_log,
      current_body, location, pc,
      taint_sources, index, cat, markings, sources, queue, cur, visited,
      edges_traversed, taint_source_span, taint_problems, problem_source>>

catalogVars ==
    <<taint_source_definitions, args, actual_used_taint_sources, cpc>>

sanitizeVars ==
    <<harden_sanitize, field_sanitizers, create_struct, ip, called, locals, sanitize_result>>

driverVars ==
    <<build_plan, current, functions, callback_taint_problems, analysed, results,
      json, stdout, dpc>>

environmentVars == <<process_env, process_cwd, environment, entered, epc>>

roundTripVars == <<collection, structured, read_back, rpc>>

\* The variables check_data_flow and the graph builder do not touch.
nonEngineVars ==
    <<catalogVars, sanitizeVars, driverVars, environmentVars, roundTripVars>>

vars == <<engineVars, nonEngineVars>>

graphVars ==
    <<data_dependency_graph, data_dependency_graph_index, calls, call_log,
      current_body, location>>

walkVars == <<cur, visited, edges_traversed, taint_source_span>>

\* ------------------------------------------------------------ graph access
Nodes == data_dependency_graph.nodes

Edges == data_dependency_graph.edges

\* petgraph walks a node's edge list from the edge added last to the first.
RevIdx(n) == [i \in 1..n |-> n + 1 - i]

\* edges_directed(node, Outgoing): edge positions, most recently added first.
OutEdges(node) == SelectSeq(RevIdx(Len(Edges)), LAMBDA e : Edges[e].source = node)

\* neighbors_directed(node, Outgoing): one entry per outgoing edge.
Neighbours(node) == [i \in 1..Len(OutEdges(node)) |-> Edges[OutEdges(node)[i]].target]

\* edges_connecting(a, b).nth(0)
EdgeConnecting(a, b) ==
    Edges[SelectSeq(OutEdges(a), LAMBDA e : Edges[e].target = b)[1]]

\* An edge that counts as move-only as soon as one instance is a Move.
IsMoveOnly_Any(edge) ==
    \E i \in 1..Len(edge.instances) : edge.instances[i].data_flow_type = Move

\* GraphEdge::is_move_only
IsMoveOnly(edge) ==
    \A i \in 1..Len(edge.instances) : edge.instances[i].data_flow_type = Move

\* IRSpan::new: a span is the position of one statement; the source map gives
\* its file and its line and column range.
IRSpanNew(span) ==
    [file_name |-> "src/main.rs", start_line |-> span, start_col |-> 4,
     end_line |-> span, end_col |-> 5]

FirstSpan(edge) == IRSpanNew(edge.instances[1].span)

\* No catalog is being chosen.
CatalogIdle ==
    /\ taint_source_definitions = <<>>
    /\ args = [taint_sources |-> <<>>, list_taint_sources |-> FALSE,
               output_format |-> "Console"]
    /\ actual_used_taint_sources = <<>>
    /\ cpc = "idle"

\* No derived sanitize_value is running.
SanitizeIdle ==
    /\ harden_sanitize = FALSE
    /\ field_sanitizers = <<>>
    /\ create_struct = <<>>
    /\ ip = 0
    /\ called = <<>>
    /\ locals = <<>>
    /\ sanitize_result = "idle"

\* No build plan is being executed.
DriverIdle ==
    /\ build_plan = <<>>
    /\ current = 0
    /\ functions = <<>>
    /\ callback_taint_problems = <<>>
    /\ analysed = <<>>
    /\ results = <<>>
    /\ json = <<>>
    /\ stdout = <<>>
    /\ dpc = "idle"

\* No invocation environment has been entered.
EnvironmentIdle ==
    /\ process_env = <<>>
    /\ process_cwd = ""
    /\ environment = [vars |-> <<>>, override_vars |-> <<>>, cwd |-> "", live |-> FALSE]
    /\ entered = <<>>
    /\ epc = "idle"

\* No collection of problems is being converted.
RoundTripIdle ==
    /\ collection = <<>>
    /\ structured = <<>>
    /\ read_back = <<>>
    /\ rpc = "idle"

\* The state of the builder and of check_data_flow after construction.
EngineInit ==
    /\ data_dependency_graph = [nodes |-> <<>>, edges |-> <<>>]
    /\ data_dependency_graph_index = <<>>
    /\ calls = 0
    /\ call_log = <<>>
    /\ current_body = [arg_count |-> 0, local_decls |-> <<>>, span |-> 0, statements |-> <<>>]
    /\ location = 0
    /\ pc = "build"
    /\ taint_sources = <<>>
    /\ index = 0
    /\ cat = 0
    /\ markings = <<>>
    /\ sources = <<>>
    /\ queue = <<>>
    /\ cur = 0
    /\ visited = <<>>
    /\ edges_traversed = <<>>
    /\ taint_source_span = 0
    /\ taint_problems = <<>>
    /\ problem_source = <<>>

Init ==
    /\ EngineInit
    /\ RoundTripIdle
    /\ CatalogIdle
    /\ SanitizeIdle
    /\ DriverIdle
    /\ EnvironmentIdle

\* ------------------------------------------------------------- the builder
\* DataFlowTaintTracker::add_data_dependency_edge (data_flow.rs:193-233).
\* An insertion that adds a node for every occurrence of a value.
WithNode_Always(graph, idx, node) ==
    [graph EXCEPT !.nodes = Append(@, node)]

WithNode(graph, idx, node) ==
    IF node \in DOMAIN idx THEN graph
    ELSE [graph EXCEPT !.nodes = Append(@, node)]

WithIndex(graph, idx, node) ==
    IF node \in DOMAIN idx THEN idx
    ELSE (node :> (Len(graph.nodes) + 1)) @@ idx

\* find_edge(from_idx, to_idx): the positions of the edges between the two.
FindEdge(graph, a, b) ==
    {e \in 1..Len(graph.edges) : graph.edges[e].source = a /\ graph.edges[e].target = b}

\* An insertion that never merges into the edge of the pair.
WithEdge_AlwaysAdd(graph, a, b, instance) ==
    [graph EXCEPT !.edges =
        Append(@, [source |-> a, target |-> b, instances |-> <<instance>>])]

WithEdge(graph, a, b, instance) ==
    IF FindEdge(graph, a, b) # {}
    THEN LET e == CHOOSE x \in FindEdge(graph, a, b) : TRUE
         IN  [graph EXCEPT !.edges[e].instances = Append(@, instance)]
    ELSE [graph EXCEPT !.edges =
            Append(@, [source |-> a, target |-> b, instances |-> <<instance>>])]

AddDataDependencyEdge(from, to, span, flow_type) ==
    LET g1 == WithNode(data_dependency_graph, data_dependency_graph_index, from)
        i1 == WithIndex(data_dependency_graph, data_dependency_graph_index, from)
        from_idx == i1[from]
        g2 == WithNode(g1, i1, to)
        i2 == WithIndex(g1, i1, to)
        to_idx == i2[to]
        new_edge == [span |-> span, data_flow_type |-> flow_type]
    IN  /\ data_dependency_graph' = WithEdge(g2, from_idx, to_idx, new_edge)
        /\ data_dependency_graph_index' = i2

\* One statement or terminator of the body adds one edge; its span is the
\* position of the statement.  Edges start at the call under analysis or at a
\* node the graph already holds.
AddEdge ==
    /\ pc = "build"
    /\ calls < MaxCalls
    /\ \E from \in FromValues, to \in ToValues, flow_type \in EdgeDataFlowType :
        /\ from = EnvVarCall \/ from \in DOMAIN data_dependency_graph_index
        /\ AddDataDependencyEdge(from, to, calls + 1, flow_type)
        /\ call_log' = Append(call_log, [from |-> from, to |-> to, span |-> calls + 1,
                                         flow_type |-> flow_type])
    /\ calls' = calls + 1
    /\ UNCHANGED <<current_body, location>>
    /\ UNCHANGED <<pc, taint_sources, index, cat, markings, sources, queue,
                   walkVars, taint_problems, problem_source>>
    /\ UNCHANGED nonEngineVars

\* ------------------------------------------------------- check_data_flow
Tainted == [tag |-> "Tainted", taint_source |-> 0]

TaintSink == [tag |-> "TaintSink", taint_source |-> 0]

\* Marking::TaintSource(&taint_source): a reference to entry j of the catalog.
TaintSource(j) == [tag |-> "TaintSource", taint_source |-> j]

\* config::Map::insert: the entry of the key is set, an old one is replaced.
MapInsert(map, key, value) ==
    [k \in DOMAIN map \cup {key} |-> IF k = key THEN value ELSE map[k]]

\* A lookup that does not see the sink marking.
IsMarked_NotSink(map, node) ==
    node \in DOMAIN map /\ map[node].tag # "TaintSink"

\* config::Map::get(..).is_none() negated: the node has a marking.
IsMarked(map, node) == node \in DOMAIN map

\* check_data_flow is called with the graph of the body and the active catalog.
CheckDataFlow ==
    /\ pc = "build"
    /\ \E catalog \in Catalogs : taint_sources' = catalog
    /\ pc' = IF Len(Nodes) = 0 THEN "done" ELSE "scan"
    /\ index' = 1
    /\ cat' = 0
    /\ UNCHANGED <<graphVars, markings, sources, queue, walkVars,
                   taint_problems, problem_source>>
    /\ UNCHANGED nonEngineVars

\* Lines 42-79: the type of a local or the callee of a call makes it a sink.
IsSinkNode(node) ==
    CASE node.kind = "Local" -> node.ty = UntrustedValueTy
      [] node.kind = "FunctionCall" /\ node.function.fndef ->
            IF node.function.path = WrapFn THEN TRUE
            ELSE IF node.function.path = FromFn
            THEN /\ Len(node.function.generics) >= 1
                 /\ node.function.generics[1] = UntrustedValueTy
            ELSE IF node.function.path = IntoFn
            THEN /\ Len(node.function.generics) >= 2
                 /\ node.function.generics[2] = UntrustedValueTy
            ELSE FALSE
      [] OTHER -> FALSE

\* Vec::contains on the function names of one descriptor (line 81).
Contains(seq, x) == \E i \in 1..Len(seq) : seq[i] = x

\* The scan moves on: to the catalog loop of a call, else to the next node,
\* and after the last node to the saturation with the queue of the sources.
ScanNext(newSources) ==
    IF index < Len(Nodes)
    THEN /\ index' = index + 1
         /\ cat' = 0
         /\ pc' = "scan"
         /\ queue' = queue
    ELSE /\ index' = index
         /\ cat' = 0
         /\ pc' = "saturate"
         /\ queue' = newSources

ScanSink ==
    /\ pc = "scan"
    /\ cat = 0
    /\ LET node == Nodes[index]
       IN  /\ markings' = IF IsSinkNode(node)
                          THEN MapInsert(markings, node, TaintSink)
                          ELSE markings
           /\ IF node.kind = "FunctionCall" /\ node.function.fndef
                 /\ Len(taint_sources) > 0
              THEN /\ cat' = 1
                   /\ UNCHANGED <<index, pc, queue>>
              ELSE ScanNext(sources)
    /\ UNCHANGED <<graphVars, taint_sources, sources, walkVars,
                   taint_problems, problem_source>>
    /\ UNCHANGED nonEngineVars

\* Lines 80-85: one iteration of the loop over the catalog.
ScanCatalog ==
    /\ pc = "scan"
    /\ cat > 0
    /\ LET node == Nodes[index]
           hit == Contains(taint_sources[cat].functions, node.function.path)
           newSources == IF hit THEN Append(sources, index) ELSE sources
       IN  /\ markings' = IF hit
                          THEN MapInsert(markings, node, TaintSource(cat))
                          ELSE markings
           /\ sources' = newSources
           /\ IF cat < Len(taint_sources)
              THEN /\ cat' = cat + 1
                   /\ UNCHANGED <<index, pc, queue>>
              ELSE ScanNext(newSources)
    /\ UNCHANGED <<graphVars, taint_sources, walkVars, taint_problems,
                   problem_source>>
    /\ UNCHANGED nonEngineVars

\* Lines 95-103: the neighbours of one node, in order; an unmarked one is
\* marked Tainted and queued.
RECURSIVE MarkNeighbours(_, _, _)
MarkNeighbours(ns, map, q) ==
    IF ns = <<>> THEN [markings |-> map, queue |-> q]
    ELSE LET neighbour_node == Nodes[Head(ns)]
         IN  IF ~IsMarked(map, neighbour_node)
             THEN MarkNeighbours(Tail(ns), MapInsert(map, neighbour_node, Tainted),
                                 Append(q, Head(ns)))
             ELSE MarkNeighbours(Tail(ns), map, q)

\* Lines 93-104: one node is taken from the queue.
Saturate ==
    /\ pc = "saturate"
    /\ queue # <<>>
    /\ LET r == MarkNeighbours(Neighbours(Head(queue)), markings, Tail(queue))
       IN  /\ markings' = r.markings
           /\ queue' = r.queue
    /\ UNCHANGED <<graphVars, pc, taint_sources, index, cat, sources, walkVars,
                   taint_problems, problem_source>>
    /\ UNCHANGED nonEngineVars

\* Lines 105-110: the queue has run empty; the walks start with the first source.
StartWalks ==
    /\ pc = "saturate"
    /\ queue = <<>>
    /\ IF sources = <<>>
       THEN /\ pc' = "done"
            /\ UNCHANGED <<cur, queue, visited>>
       ELSE /\ pc' = "first"
            /\ cur' = 1
            /\ queue' = <<sources[1]>>
            /\ visited' = <<>>
    /\ UNCHANGED <<graphVars, taint_sources, index, cat, markings, sources,
                   edges_traversed, taint_source_span, taint_problems,
                   problem_source>>
    /\ UNCHANGED nonEngineVars

\* ---------------------------------------------------------------- the walk
NoSpan == IRSpanNew(0)

NoUsage == [kind |-> "None", span |-> NoSpan]

\* TaintUsageType (taint_problem.rs:6-12)
UsageCopied == [kind |-> "Copied", span |-> NoSpan]

UsageFunctionCall(span) == [kind |-> "FunctionCall", span |-> span]

UsageReturnedToCaller == [kind |-> "ReturnedToCaller", span |-> NoSpan]

UsageAssembly == [kind |-> "Assembly", span |-> NoSpan]

UsageControlFlow == [kind |-> "ControlFlow", span |-> NoSpan]

\* TaintProblemType (taint_problem.rs:15-29)
DataDependencyLoop(statement_chain, loop_closure) ==
    [type |-> "DataDependencyLoop", statement_chain |-> statement_chain,
     loop_closure |-> loop_closure, targets |-> <<>>, used_in |-> NoSpan,
     usage_type |-> NoUsage]

Duplicated(statement_chain, targets) ==
    [type |-> "Duplicated", statement_chain |-> statement_chain,
     loop_closure |-> NoSpan, targets |-> targets, used_in |-> NoSpan,
     usage_type |-> NoUsage]

UsedProblem(statement_chain, used_in, usage_type) ==
    [type |-> "Used", statement_chain |-> statement_chain,
     loop_closure |-> NoSpan, targets |-> <<>>, used_in |-> used_in,
     usage_type |-> usage_type]

\* TaintProblem (taint_problem.rs:33-38); taint_source is the catalog entry
\* the marking of the source node refers to.
TaintProblem(taint_source, source_func_sig, source_span, problem_type) ==
    [taint_source |-> taint_source, source_func_sig |-> source_func_sig,
     source_span |-> source_span, problem_type |-> problem_type]

\* A chain that leaves out the edge into the current node.
FirstSpans_DropLast(edges) ==
    [i \in 1..(Len(edges) - 1) |-> FirstSpan(edges[i])]

\* The first span of every edge of a list (the statement chain, the targets).
FirstSpans(edges) == [i \in 1..Len(edges) |-> FirstSpan(edges[i])]

\* continue 'source_test, or the end of the while loop: the next source's
\* walk starts with fresh locals, and after the last source the run is done.
NextSource ==
    IF cur < Len(sources)
    THEN /\ pc' = "first"
         /\ cur' = cur + 1
         /\ queue' = <<sources[cur + 1]>>
    ELSE /\ pc' = "done"
         /\ cur' = cur
         /\ queue' = <<>>

Report(problem) ==
    /\ taint_problems' = Append(taint_problems, problem)
    /\ problem_source' = Append(problem_source, sources[cur])

NoReport == UNCHANGED <<taint_problems, problem_source>>

Panic ==
    /\ pc' = "panic"
    /\ UNCHANGED <<cur, queue>>

\* Lines 135-167: what the outgoing edges of the source make of the first hop.
FirstHopCase(edge) ==
    IF Len(edge) > 1 THEN "duplicated"
    ELSE IF Len(edge) = 1
    THEN IF IsMoveOnly(Edges[edge[1]]) THEN "advance" ELSE "copied"
    ELSE "none"

\* Lines 109-167: the locals of one source's walk and its first hop.
FirstHop ==
    /\ pc = "first"
    /\ LET source == Head(queue)
           source_node == Nodes[source]
           marking == markings[source_node]
           taint_source == marking.taint_source
           source_func_sig == source_node.function.path
           edge == OutEdges(source)
       IN  IF ~(IsMarked(markings, source_node) /\ marking.tag = "TaintSource")
              \/ ~(source_node.kind = "FunctionCall" /\ source_node.function.fndef)
           THEN /\ Panic
                /\ NoReport
                /\ UNCHANGED <<visited, edges_traversed, taint_source_span>>
           ELSE /\ visited' = <<source>>
                /\ edges_traversed' = <<>>
                /\ IF FirstHopCase(edge) = "duplicated"
                   THEN /\ Report(TaintProblem(taint_source, source_func_sig,
                                   FirstSpan(Edges[edge[1]]),
                                   Duplicated(<<>>,
                                       [i \in 1..Len(edge) |-> FirstSpan(Edges[edge[i]])])))
                        /\ NextSource
                        /\ UNCHANGED taint_source_span
                   ELSE IF FirstHopCase(edge) = "advance"
                   THEN /\ queue' = <<Edges[edge[1]].target>>
                        /\ taint_source_span' = Edges[edge[1]].instances[1].span
                        /\ pc' = "walk"
                        /\ NoReport
                        /\ UNCHANGED cur
                   ELSE IF FirstHopCase(edge) = "copied"
                   THEN /\ Report(TaintProblem(taint_source, source_func_sig,
                                   FirstSpan(Edges[edge[1]]),
                                   UsedProblem(<<>>, FirstSpan(Edges[edge[1]]),
                                               UsageCopied)))
                        /\ NextSource
                        /\ UNCHANGED taint_source_span
                   ELSE /\ NextSource
                        /\ NoReport
                        /\ UNCHANGED taint_source_span
    /\ UNCHANGED <<graphVars, taint_sources, index, cat, markings, sources>>
    /\ UNCHANGED nonEngineVars

\* A sink arm that reports like the other markings.
AbsorbsTaint_Never(marking) == FALSE

\* Lines 211, 238: the arm Marking::TaintSink => {} absorbs the taint.
AbsorbsTaint(marking) == marking.tag = "TaintSink"

\* Lines 204-295: the single neighbour of the current node decides.
\* The result: "problem" with the usage, "continue", "stop" or "panic".
SingleNeighbour(node, neighbour) ==
    LET neighbour_node == Nodes[neighbour]
        edge == EdgeConnecting(node, neighbour)
    IN  CASE neighbour_node.kind = "Local" ->
                IF IsMarked(markings, neighbour_node)
                THEN IF AbsorbsTaint(markings[neighbour_node])
                     THEN [do |-> "stop", usage |-> NoUsage]
                     ELSE IF IsMoveOnly(edge)
                     THEN [do |-> "continue", usage |-> NoUsage]
                     ELSE [do |-> "problem", usage |-> UsageCopied]
                ELSE [do |-> "panic", usage |-> NoUsage]
          [] neighbour_node.kind = "FunctionCall" ->
                IF IsMarked(markings, neighbour_node)
                THEN IF AbsorbsTaint(markings[neighbour_node])
                     THEN [do |-> "stop", usage |-> NoUsage]
                     ELSE [do |-> "problem",
                           usage |-> UsageFunctionCall(IRSpanNew(neighbour_node.span))]
                ELSE [do |-> "panic", usage |-> NoUsage]
          [] neighbour_node.kind = "ReturnedToCaller" ->
                [do |-> "problem", usage |-> UsageReturnedToCaller]
          [] neighbour_node.kind = "Assembly" ->
                [do |-> "problem", usage |-> UsageAssembly]
          [] neighbour_node.kind = "ControlFlow" ->
                [do |-> "problem", usage |-> UsageControlFlow]
          [] OTHER -> [do |-> "panic", usage |-> NoUsage]

\* A walk that takes every count of neighbours other than one for a fan-out.
WalkCase_NotOne(neighbours) ==
    IF Len(neighbours) # 1 THEN "duplicated" ELSE "single"

\* Lines 192, 204, 296: the number of neighbours of the current node decides.
WalkCase(neighbours) ==
    IF Len(neighbours) > 1 THEN "duplicated"
    ELSE IF Len(neighbours) = 1 THEN "single"
    ELSE "none"

\* A test that never finds the node among the visited ones.
VisitedContains_Never(v, node) == FALSE

\* Line 177: visited.contains(&node)
VisitedContains(v, node) == \E i \in 1..Len(v) : v[i] = node

\* Lines 169-297: one iteration of the while loop of a walk.
WalkStep ==
    /\ pc = "walk"
    /\ LET node == Head(queue)
           source_node == Nodes[sources[cur]]
           taint_source == markings[source_node].taint_source
           source_func_sig == source_node.function.path
           last_node == visited[Len(visited)]
           edge == EdgeConnecting(last_node, node)
           traversed == Append(edges_traversed, edge)
           neighbours == Neighbours(node)
           problem(problem_type) ==
               TaintProblem(taint_source, source_func_sig,
                            IRSpanNew(taint_source_span), problem_type)
       IN  /\ edges_traversed' = traversed
           /\ IF VisitedContains(visited, node)
              THEN /\ Report(problem(DataDependencyLoop(
                              FirstSpans(SubSeq(traversed, 1, Len(traversed) - 1)),
                              FirstSpan(edge))))
                   /\ NextSource
                   /\ UNCHANGED visited
              ELSE /\ visited' = Append(visited, node)
                   /\ IF WalkCase(neighbours) = "duplicated"
                      THEN /\ Report(problem(Duplicated(FirstSpans(traversed),
                                  [i \in 1..Len(neighbours) |->
                                      FirstSpan(EdgeConnecting(node, neighbours[i]))])))
                           /\ NextSource
                      ELSE IF WalkCase(neighbours) = "single"
                      THEN LET r == SingleNeighbour(node, neighbours[1])
                               edge1 == EdgeConnecting(node, neighbours[1])
                           IN  CASE r.do = "panic" -> Panic /\ NoReport
                                 [] r.do = "continue" ->
                                       /\ queue' = <<neighbours[1]>>
                                       /\ NoReport
                                       /\ UNCHANGED <<pc, cur>>
                                 [] r.do = "stop" -> NextSource /\ NoReport
                                 [] OTHER ->
                                       /\ Report(problem(UsedProblem(FirstSpans(traversed),
                                                          FirstSpan(edge1), r.usage)))
                                       /\ NextSource
                      ELSE NextSource /\ NoReport
    /\ UNCHANGED <<graphVars, taint_sources, index, cat, markings, sources,
                   taint_source_span>>
    /\ UNCHANGED nonEngineVars

Next ==
    \/ AddEdge
    \/ CheckDataFlow
    \/ ScanSink
    \/ ScanCatalog
    \/ Saturate
    \/ StartWalks
    \/ FirstHop
    \/ WalkStep

Spec == Init /\ [][Next]_vars

\* ------------------------------------------------- the visitor of the body
\* Number of statements and terminators of the body that is visited.
MaxStatements == 3

\* body.local_decls: the types of the locals _0 (the return place) to _3.
LocalDecls ==
    [local \in 0..3 |-> IF local = 3 THEN UntrustedValueTy ELSE "String"]

\* DependencyGraphNode::from_local (data_flow.rs:23-28)
FromLocal(local, body) == Local(local, body.local_decls[local])

\* mir::Operand; a place is known by its local.
OperandCopy(place) == [operand |-> "Copy", place |-> place]

OperandMove(place) == [operand |-> "Move", place |-> place]

OperandConstant == [operand |-> "Constant", place |-> 0]

\* force_flow: None
NoForce == "None"

\* get_place_dependency (data_flow.rs:116-123)
GetPlaceDependency(place, flow_type) == <<[local |-> place, flow_type |-> flow_type]>>

\* get_operand_dependency (data_flow.rs:124-143)
GetOperandDependency(operand, force_flow) ==
    CASE operand.operand = "Copy" ->
            GetPlaceDependency(operand.place,
                               IF force_flow = NoForce THEN Used ELSE force_flow)
      [] operand.operand = "Move" ->
            GetPlaceDependency(operand.place,
                               IF force_flow = NoForce THEN Move ELSE force_flow)
      [] OTHER -> <<>>

\* The dependencies of a list of operands, pushed in order.
RECURSIVE GetOperandsDependency(_, _)
GetOperandsDependency(operands, force_flow) ==
    IF operands = <<>> THEN <<>>
    ELSE GetOperandDependency(Head(operands), force_flow)
            \o GetOperandsDependency(Tail(operands), force_flow)

\* mir::Rvalue: its kind, its operands and its place.
Rvalue(kind, operands, place) == [rvalue |-> kind, operands |-> operands, place |-> place]

\* get_rvalue_dependency (data_flow.rs:144-192)
GetRvalueDependency(rvalue) ==
    CASE rvalue.rvalue \in {"Use", "Cast", "Aggregate", "ShallowInitBox"} ->
            GetOperandsDependency(rvalue.operands, NoForce)
      [] rvalue.rvalue \in {"Repeat", "BinaryOp", "UnaryOp"} ->
            GetOperandsDependency(rvalue.operands, Used)
      [] rvalue.rvalue \in {"Ref", "AddressOf", "Len", "Discriminant", "CopyForDeref"} ->
            GetPlaceDependency(rvalue.place, Used)
      [] OTHER -> <<>>

\* One call of add_data_dependency_edge.
EdgeCall(from, to, span, flow_type) ==
    [from |-> from, to |-> to, span |-> span, flow_type |-> flow_type]

\* for (dep, flow) in dependencies: an edge from the local of each dependency.
EdgesFromLocals(dependencies, to, span, body) ==
    [k \in 1..Len(dependencies) |->
        EdgeCall(FromLocal(dependencies[k].local, body), to, span,
                 dependencies[k].flow_type)]

\* for (dep, flow) in outputs: an edge to the local of each dependency.
EdgesToLocals(from, dependencies, span, body) ==
    [k \in 1..Len(dependencies) |->
        EdgeCall(from, FromLocal(dependencies[k].local, body), span,
                 dependencies[k].flow_type)]

\* mir::StatementKind
Assign(place, rvalue) ==
    [kind |-> "Assign", place |-> place, rvalue |-> rvalue,
     src |-> OperandConstant, dst |-> OperandConstant]

CopyNonOverlapping(src, dst) ==
    [kind |-> "CopyNonOverlapping", place |-> 0, rvalue |-> Rvalue("NullaryOp", <<>>, 0),
     src |-> src, dst |-> dst]

StorageLive ==
    [kind |-> "StorageLive", place |-> 0, rvalue |-> Rvalue("NullaryOp", <<>>, 0),
     src |-> OperandConstant, dst |-> OperandConstant]

\* visit_statement (data_flow.rs:267-322): the edges one statement adds.
StatementEdges(statement, span, body) ==
    CASE statement.kind = "Assign" ->
            EdgesFromLocals(GetRvalueDependency(statement.rvalue),
                            FromLocal(statement.place, body), span, body)
      [] statement.kind = "CopyNonOverlapping"
            /\ statement.dst.operand \in {"Copy", "Move"}
            /\ statement.src.operand \in {"Copy", "Move"} ->
            <<EdgeCall(FromLocal(statement.src.place, body),
                       FromLocal(statement.dst.place, body), span,
                       IF statement.src.operand = "Copy" THEN Used ELSE Move)>>
      [] OTHER -> <<>>

\* mir::InlineAsmOperand
AsmIn(value) == [asm |-> "In", value |-> value, out |-> FALSE, place |-> 0]

AsmOut(place) == [asm |-> "Out", value |-> OperandConstant, out |-> TRUE, place |-> place]

AsmInOut(in_value, out_place) ==
    [asm |-> "InOut", value |-> in_value, out |-> TRUE, place |-> out_place]

\* The inputs of an asm block (data_flow.rs:464-469, 484-488).
RECURSIVE AsmInputs(_)
AsmInputs(operands) ==
    IF operands = <<>> THEN <<>>
    ELSE (IF Head(operands).asm \in {"In", "InOut"}
          THEN GetOperandDependency(Head(operands).value, Used) ELSE <<>>)
         \o AsmInputs(Tail(operands))

\* The outputs of an asm block (data_flow.rs:471-483, 489-495).
RECURSIVE AsmOutputs(_)
AsmOutputs(operands) ==
    IF operands = <<>> THEN <<>>
    ELSE (IF Head(operands).asm \in {"Out", "InOut"} /\ Head(operands).out
          THEN GetPlaceDependency(Head(operands).place,
                                  IF Head(operands).asm = "Out" THEN Used ELSE Move)
          ELSE <<>>)
         \o AsmOutputs(Tail(operands))

\* mir::TerminatorKind
Terminator(kind, func, operands, place, asm_operands, line_spans) ==
    [kind |-> kind, func |-> func, operands |-> operands, place |-> place,
     asm_operands |-> asm_operands, line_spans |-> line_spans]

Goto == Terminator("Goto", NoFn, <<>>, 0, <<>>, <<>>)

SwitchInt(discr) == Terminator("SwitchInt", NoFn, <<discr>>, 0, <<>>, <<>>)

Return == Terminator("Return", NoFn, <<>>, 0, <<>>, <<>>)

TerminatorCall(func, arguments, destination) ==
    Terminator("Call", func, arguments, destination, <<>>, <<>>)

TailCall(func, arguments) == Terminator("TailCall", func, arguments, 0, <<>>, <<>>)

Yield(value, resume_arg) == Terminator("Yield", NoFn, <<value>>, resume_arg, <<>>, <<>>)

InlineAsm(operands, line_spans) ==
    Terminator("InlineAsm", NoFn, <<>>, 0, operands, line_spans)

\* A resume edge that leads into FunctionInput.
ResumeEdge_Reversed(resume_arg, span, body) ==
    EdgeCall(FromLocal(resume_arg, body), FunctionInput, span, Move)

\* Yield: the edge from FunctionInput to the resume argument
\* (data_flow.rs:447-452).
ResumeEdge(resume_arg, span, body) ==
    EdgeCall(FunctionInput, FromLocal(resume_arg, body), span, Move)

\* visit_terminator (data_flow.rs:333-542): the edges one terminator adds.
TerminatorEdges(terminator, span, fn_span, body) ==
    LET dependencies == GetOperandsDependency(terminator.operands, NoForce)
        func_call == FunctionCall(terminator.func, fn_span)
        asm_block == Assembly(terminator.line_spans)
    IN  CASE terminator.kind = "SwitchInt" ->
                EdgesFromLocals(dependencies, ControlFlow, span, body)
          [] terminator.kind = "Return" ->
                <<EdgeCall(FromLocal(0, body), ReturnedToCaller, span, Move)>>
          [] terminator.kind = "Call" ->
                EdgesFromLocals(dependencies, func_call, fn_span, body)
                \o <<EdgeCall(func_call, FromLocal(terminator.place, body), fn_span, Move)>>
          [] terminator.kind = "TailCall" ->
                EdgesFromLocals(dependencies, func_call, fn_span, body)
                \o <<EdgeCall(func_call, ReturnedToCaller, fn_span, Move)>>
          [] terminator.kind = "Yield" ->
                EdgesFromLocals(dependencies, ReturnedToCaller, span, body)
                \o <<ResumeEdge(terminator.place, span, body)>>
          [] terminator.kind = "InlineAsm" ->
                EdgesFromLocals(AsmInputs(terminator.asm_operands), asm_block, span, body)
                \o EdgesToLocals(asm_block, AsmOutputs(terminator.asm_operands), span, body)
          [] OTHER -> <<>>

\* visit_body (data_flow.rs:248-255): one edge per declared parameter.
BodyEdges(body) ==
    [arg \in 1..body.arg_count |->
        EdgeCall(FunctionInput, FromLocal(arg, body), body.span, Move)]

\* The graph and the index after a list of add_data_dependency_edge calls.
RECURSIVE AddDataDependencyEdges(_, _, _)
AddDataDependencyEdges(graph, idx, edge_calls) ==
    IF edge_calls = <<>> THEN [graph |-> graph, index |-> idx]
    ELSE LET c == Head(edge_calls)
             g1 == WithNode(graph, idx, c.from)
             i1 == WithIndex(graph, idx, c.from)
             g2 == WithNode(g1, i1, c.to)
             i2 == WithIndex(g1, i1, c.to)
             new_edge == [span |-> c.span, data_flow_type |-> c.flow_type]
         IN  AddDataDependencyEdges(WithEdge(g2, i1[c.from], i2[c.to], new_edge), i2,
                                    Tail(edge_calls))

\* The statements and terminators the bodies are made of.
Statements ==
    { Assign(2, Rvalue("Use", <<OperandMove(1)>>, 0)),
      Assign(0, Rvalue("Use", <<OperandCopy(2)>>, 0)),
      Assign(2, Rvalue("BinaryOp", <<OperandCopy(1), OperandMove(2)>>, 0)),
      Assign(0, Rvalue("Aggregate", <<OperandMove(1), OperandConstant>>, 0)),
      Assign(1, Rvalue("Ref", <<>>, 2)),
      CopyNonOverlapping(OperandCopy(1), OperandMove(2)),
      StorageLive }

Terminators ==
    { Goto,
      SwitchInt(OperandMove(1)),
      Return,
      TerminatorCall(FnDef("std::env::var", <<>>), <<OperandConstant>>, 1),
      TerminatorCall(FnDef(WrapFn, <<"String">>), <<OperandMove(1)>>, 3),
      TailCall(FnDef("std::env::var", <<>>), <<OperandCopy(2)>>),
      Yield(OperandMove(2), 1),
      InlineAsm(<<AsmIn(OperandMove(1)), AsmOut(2), AsmInOut(OperandCopy(2), 0)>>, <<103>>) }

\* mir::Body: the number of parameters, the declared locals, the span, and
\* the statements and terminators in the order the visitor meets them.
Body(arg_count, statements) ==
    [arg_count |-> arg_count, local_decls |-> LocalDecls, span |-> 200,
     statements |-> statements]

NoBody == Body(0, <<>>)

RECURSIVE SeqsUpTo(_, _)
SeqsUpTo(set, n) ==
    IF n = 0 THEN {<<>>}
    ELSE SeqsUpTo(set, n - 1)
         \cup {Append(s, x) : s \in {t \in SeqsUpTo(set, n - 1) : Len(t) = n - 1}, x \in set}

Bodies ==
    {Body(arg_count, statements) :
        arg_count \in 0..2,
        statements \in SeqsUpTo(Statements \cup Terminators, MaxStatements)}

\* The span of the statement at a position, and the span of a call made there.
SourceInfoSpan(position) == position

FnSpan(position) == 100 + position

\* DataFlowTaintTracker::new (data_flow.rs:102-112) for one body.
InitBuilder ==
    /\ data_dependency_graph = [nodes |-> <<>>, edges |-> <<>>]
    /\ data_dependency_graph_index = <<>>
    /\ calls = 0
    /\ call_log = <<>>
    /\ current_body \in Bodies
    /\ location = 0
    /\ pc = "visit"
    /\ taint_sources = <<>>
    /\ index = 0
    /\ cat = 0
    /\ markings = <<>>
    /\ sources = <<>>
    /\ queue = <<>>
    /\ cur = 0
    /\ visited = <<>>
    /\ edges_traversed = <<>>
    /\ taint_source_span = 0
    /\ taint_problems = <<>>
    /\ problem_source = <<>>
    /\ CatalogIdle
    /\ SanitizeIdle
    /\ DriverIdle
    /\ RoundTripIdle
    /\ EnvironmentIdle

\* The visitor adds the edges of one visit and moves on; after the last
\* statement the graph is handed to check_data_flow.
Visit(edge_calls) ==
    /\ LET r == AddDataDependencyEdges(data_dependency_graph,
                                       data_dependency_graph_index, edge_calls)
       IN  /\ data_dependency_graph' = r.graph
           /\ data_dependency_graph_index' = r.index
    /\ calls' = calls + Len(edge_calls)
    /\ call_log' = call_log \o edge_calls
    /\ location' = location + 1
    /\ pc' = IF location < Len(current_body.statements) THEN "visit" ELSE "build"
    /\ UNCHANGED <<current_body, taint_sources, index, cat, markings, sources, queue,
                   walkVars, taint_problems, problem_source>>
    /\ UNCHANGED nonEngineVars

VisitBody ==
    /\ pc = "visit"
    /\ location = 0
    /\ Visit(BodyEdges(current_body))

VisitStatement ==
    /\ pc = "visit"
    /\ location >= 1
    /\ current_body.statements[location] \in Statements
    /\ Visit(StatementEdges(current_body.statements[location],
                            SourceInfoSpan(location), current_body))

VisitTerminator ==
    /\ pc = "visit"
    /\ location >= 1
    /\ current_body.statements[location] \in Terminators
    /\ Visit(TerminatorEdges(current_body.statements[location],
                             SourceInfoSpan(location), FnSpan(location), current_body))

NextBuilder ==
    \/ VisitBody
    \/ VisitStatement
    \/ VisitTerminator
    \/ CheckDataFlow
    \/ ScanSink
    \/ ScanCatalog
    \/ Saturate
    \/ StartWalks
    \/ FirstHop
    \/ WalkStep

SpecBuilder == InitBuilder /\ [][NextBuilder]_vars

\* check_data_flow runs to its end once it is called: a step of the scan, of
\* the saturation or of a walk that can be taken is taken.
CheckDataFlowStep ==
    \/ ScanSink
    \/ ScanCatalog
    \/ Saturate
    \/ StartWalks
    \/ FirstHop
    \/ WalkStep

SpecTermination == Init /\ [][Next]_vars /\ WF_vars(CheckDataFlowStep)

\* ------------------------------------------- the choice of the catalog
\* Number of --taint-sources prefixes given on the command line.
MaxPrefixes == 2

\* TaintSourceDefinition (taint_source.rs:4-8): the modules of the catalog.
EnvModule ==
    [taint_module_name |-> "env", taint_module_description |-> "environment",
     sources |-> <<EnvSource>>]

StdModule ==
    [taint_module_name |-> "std", taint_module_description |-> "standard library",
     sources |-> <<EnvSource, ProcSource>>]

WrapModule ==
    [taint_module_name |-> "wrap", taint_module_description |-> "wrapper",
     sources |-> <<WrapSource>>]

\* What get_taint_sources_definitions() returns: the catalog compiled in.
LoadedCatalogs == { <<EnvModule>>, <<StdModule, WrapModule>>, <<WrapModule, StdModule>> }

\* The prefixes a caller may give.
Prefixes == {"std::env", "std::env::var", "std::env::a", "std::fs", "untrusted_value"}

\* The characters of the strings the filter compares.
Chars(s) ==
    CASE s = "std::env::var" ->
            <<"s", "t", "d", ":", ":", "e", "n", "v", ":", ":", "v", "a",
            "r">>
      [] s = "std::env::args" ->
            <<"s", "t", "d", ":", ":", "e", "n", "v", ":", ":", "a", "r", "g",
            "s">>
      [] s = "untrusted_value::UntrustedValue::wrap" ->
            <<"u", "n", "t", "r", "u", "s", "t", "e", "d", "_", "v", "a", "l",
            "u", "e", ":", ":", "U", "n", "t", "r", "u", "s", "t",
            "e", "d", "V", "a", "l", "u", "e", ":", ":", "w", "r",
            "a", "p">>
      [] s = "std::env" ->
            <<"s", "t", "d", ":", ":", "e", "n", "v">>
      [] s = "std::env::a" ->
            <<"s", "t", "d", ":", ":", "e", "n", "v", ":", ":", "a">>
      [] s = "std::fs" ->
            <<"s", "t", "d", ":", ":", "f", "s">>
      [] s = "untrusted_value" ->
            <<"u", "n", "t", "r", "u", "s", "t", "e", "d", "_", "v", "a", "l",
            "u", "e">>
      [] OTHER -> <<>>

\* str::starts_with
StartsWith(f, prefix) ==
    /\ Len(Chars(prefix)) <= Len(Chars(f))
    /\ SubSeq(Chars(f), 1, Len(Chars(prefix))) = Chars(prefix)

\* iter().flat_map(|m| m.sources.iter()): the descriptors in declaration order.
RECURSIVE FlatSources(_)
FlatSources(modules) ==
    IF modules = <<>> THEN <<>>
    ELSE Head(modules).sources \o FlatSources(Tail(modules))

\* .filter(|source| source.functions.iter().any(|f| f.starts_with(prefix)))
MatchesPrefix(source, prefix) ==
    \E i \in 1..Len(source.functions) : StartsWith(source.functions[i], prefix)

\* Itertools::unique: the first occurrence of every element, in order.
RECURSIVE Unique(_)
Unique(seq) ==
    IF seq = <<>> THEN <<>>
    ELSE LET init == SubSeq(seq, 1, Len(seq) - 1)
             last == seq[Len(seq)]
         IN  IF \E i \in 1..Len(init) : init[i] = last
             THEN Unique(init)
             ELSE Append(Unique(init), last)

\* Lines 41-52: one filtered, de-duplicated list per prefix, appended in the
\* order of the prefixes.
RECURSIVE ExtendPerPrefix(_, _)
ExtendPerPrefix(modules, prefixes) ==
    IF prefixes = <<>> THEN <<>>
    ELSE Unique(SelectSeq(FlatSources(modules),
                          LAMBDA source : MatchesPrefix(source, Head(prefixes))))
         \o ExtendPerPrefix(modules, Tail(prefixes))

\* Lines 32-53
ActualUsedTaintSources(modules, prefixes) ==
    IF prefixes = <<>> THEN FlatSources(modules)
    ELSE ExtendPerPrefix(modules, prefixes)

\* The run starts with the compiled-in catalog and no prefix read yet.
InitCatalog ==
    /\ EngineInit
    /\ RoundTripIdle
    /\ SanitizeIdle
    /\ DriverIdle
    /\ EnvironmentIdle
    /\ taint_source_definitions \in LoadedCatalogs
    /\ args = [taint_sources |-> <<>>, list_taint_sources |-> FALSE,
               output_format |-> "Console"]
    /\ actual_used_taint_sources = <<>>
    /\ cpc = "args"

\* args.rs:15-16: every --taint-sources option appends one prefix.
ParseTaintSource ==
    /\ cpc = "args"
    /\ Len(args.taint_sources) < MaxPrefixes
    /\ \E prefix \in Prefixes :
          args' = [args EXCEPT !.taint_sources = Append(@, prefix)]
    /\ UNCHANGED <<taint_source_definitions, actual_used_taint_sources, cpc>>
    /\ UNCHANGED <<engineVars, sanitizeVars, driverVars, environmentVars, roundTripVars>>

\* cargo.rs:27-57: the active catalog, or the error "No taint sources found".
SelectTaintSources ==
    /\ cpc = "args"
    /\ actual_used_taint_sources' =
          ActualUsedTaintSources(taint_source_definitions, args.taint_sources)
    /\ cpc' = IF actual_used_taint_sources' = <<>> THEN "error" ELSE "selected"
    /\ UNCHANGED <<taint_source_definitions, args>>
    /\ UNCHANGED <<engineVars, sanitizeVars, driverVars, environmentVars, roundTripVars>>

NextCatalog ==
    \/ ParseTaintSource
    \/ SelectTaintSources

SpecCatalog == InitCatalog /\ [][NextCatalog]_vars

\* ------------------------------------------- the derived sanitize_value
\* Number of fields of the annotated struct.
MaxFields == 3

\* What the sanitizer of a field returns: Ok, or Err with one of the errors.
SanitizerOutcomes == {"Ok", "invalid", "too long"}

\* The statements of the generated body, one record each:
\*   call_try   #field: self.#field.sanitize_value()?,
\*   call       let #field = self.#field.sanitize_value();
\*   try        let #field = #field?;
\*   ok         Ok(Target { .. })
Statement(op, field) == [op |-> op, field |-> field]

\* impl_sanitize_value_custom with the feature harden_sanitize (lines 70-101):
\* the calls of all fields, then the error tests of all fields, then Ok.
CreateStruct_Harden(fields) ==
    [i \in 1..fields |-> Statement("call", i)]
    \o [i \in 1..fields |-> Statement("try", i)]
    \o <<Statement("ok", 0)>>

\* impl_sanitize_value_custom without the feature (lines 55-69): one call
\* with the ? operator per field inside the struct expression.
CreateStruct_ErrorsEarly(fields) ==
    [i \in 1..fields |-> Statement("call_try", i)] \o <<Statement("ok", 0)>>

\* A macro that generates the early-return body whatever the feature.
CreateStruct_IgnoresFeature(harden, fields) ==
    CreateStruct_ErrorsEarly(fields)

\* impl_sanitize_value_custom, lines 54-102: create_struct
CreateStruct(harden, fields) ==
    IF harden THEN CreateStruct_Harden(fields)
    ELSE CreateStruct_ErrorsEarly(fields)

\* A struct with up to MaxFields fields is annotated, the macro is expanded
\* with or without the feature, and sanitize_value is called on a value
\* whose field sanitizers return the outcomes drawn.  The struct has a field:
\* the type parameter CommonSanitizationError of the generated impl (lines
\* 50-52) is bound by the where clause of the fields only (32-38), so for a
\* struct without fields the impl is rejected by the compiler (E0207) and
\* there is no sanitize_value to enter.
InitSanitize ==
    /\ EngineInit
    /\ RoundTripIdle
    /\ CatalogIdle
    /\ DriverIdle
    /\ EnvironmentIdle
    /\ harden_sanitize \in BOOLEAN
    /\ \E fields \in 1..MaxFields :
        /\ field_sanitizers \in [1..fields -> SanitizerOutcomes]
        /\ create_struct = CreateStruct(harden_sanitize, fields)
    /\ ip = 1
    /\ called = <<>>
    /\ locals = <<>>
    /\ sanitize_result = "running"

Running == sanitize_result = "running" /\ ip \in 1..Len(create_struct)

\* #field: self.#field.sanitize_value()?  -- an Err is returned at once.
CallTry ==
    /\ Running
    /\ create_struct[ip].op = "call_try"
    /\ LET field == create_struct[ip].field
       IN  /\ called' = Append(called, field)
           /\ IF field_sanitizers[field] = "Ok"
              THEN ip' = ip + 1 /\ UNCHANGED sanitize_result
              ELSE sanitize_result' = field_sanitizers[field] /\ UNCHANGED ip
    /\ UNCHANGED <<harden_sanitize, field_sanitizers, create_struct, locals>>
    /\ UNCHANGED <<engineVars, catalogVars, driverVars, environmentVars, roundTripVars>>

\* let #field = self.#field.sanitize_value();  -- the result is kept.
Call ==
    /\ Running
    /\ create_struct[ip].op = "call"
    /\ LET field == create_struct[ip].field
       IN  /\ called' = Append(called, field)
           /\ locals' = Append(locals, field_sanitizers[field])
    /\ ip' = ip + 1
    /\ UNCHANGED <<harden_sanitize, field_sanitizers, create_struct, sanitize_result>>
    /\ UNCHANGED <<engineVars, catalogVars, driverVars, environmentVars, roundTripVars>>

\* let #field = #field?;  -- a kept Err is returned.
Try ==
    /\ Running
    /\ create_struct[ip].op = "try"
    /\ LET field == create_struct[ip].field
       IN  IF locals[field] = "Ok"
           THEN ip' = ip + 1 /\ UNCHANGED sanitize_result
           ELSE sanitize_result' = locals[field] /\ UNCHANGED ip
    /\ UNCHANGED <<harden_sanitize, field_sanitizers, create_struct, called, locals>>
    /\ UNCHANGED <<engineVars, catalogVars, driverVars, environmentVars, roundTripVars>>

\* Ok(Target { .. })
ReturnOk ==
    /\ Running
    /\ create_struct[ip].op = "ok"
    /\ sanitize_result' = "Ok"
    /\ UNCHANGED <<harden_sanitize, field_sanitizers, create_struct, ip, called, locals>>
    /\ UNCHANGED <<engineVars, catalogVars, driverVars, environmentVars, roundTripVars>>

NextSanitize ==
    \/ CallTry
    \/ Call
    \/ Try
    \/ ReturnOk

SpecSanitize == InitSanitize /\ [][NextSanitize]_vars

\* --------------------------------------- the environment of an invocation
\* The process environment: a variable is not set, or set to a value.
NotSet == [set |-> FALSE, value |-> ""]

SetTo(value) == [set |-> TRUE, value |-> value]

EnvKeys == {"CARGO_PKG_NAME", "OUT_DIR"}

EnvValues == {"sample", "helper"}

Directories == {"/work", "/work/sample", "/work/helper"}

\* Option<PathBuf>
None == [some |-> FALSE, path |-> ""]

Some(path) == [some |-> TRUE, path |-> path]

\* The fields of an invocation that enter reads: env and cwd.
InvocationEnv(env, cwd) == [env |-> env, cwd |-> cwd]

\* The empty key is one a build plan or a build script can name and set_var
\* refuses.
InvocationEnvs ==
    {InvocationEnv(env, cwd) :
        env \in UNION {[keys -> EnvValues] : keys \in SUBSET (EnvKeys \cup {""})},
        cwd \in {None} \cup {Some(d) : d \in Directories \ {"/work"}}}

\* environment.env.iter(): the entries of the map in one order of its keys.
IterOrders(map) ==
    {order \in [1..Cardinality(DOMAIN map) -> DOMAIN map] :
        \A i, j \in 1..Cardinality(DOMAIN map) : order[i] = order[j] => i = j}

Entries(map, order) == [i \in 1..Len(order) |-> <<order[i], map[order[i]]>>]

\* str::contains
StrContains(text, part) ==
    \E i \in 1..(Len(text) - Len(part) + 1) : SubSeq(text, i, i + Len(part) - 1) = part

\* The NUL character, written as the two characters of its escape.
Nul == "\\0"

\* std::env::set_var(key, value) panics when key is empty or holds '=' or
\* NUL, or when value holds NUL; remove_var(key) panics on the same keys.
SetVarPanics(key, value) ==
    \/ key = ""
    \/ StrContains(key, "=")
    \/ StrContains(key, Nul)
    \/ StrContains(value, Nul)

SetVar(env, key, value) ==
    [k \in DOMAIN env \cup {key} |-> IF k = key THEN SetTo(value) ELSE env[k]]

RemoveVar(env, key) ==
    [k \in DOMAIN env \cup {key} |-> IF k = key THEN NotSet ELSE env[k]]

\* env::set_var for every (key, value) of a list, in order, up to the first
\* call that panics: the variables then, whether a call panicked, and the
\* pairs that were set (enter pushes each of them to override_vars).
RECURSIVE SetVars(_, _)
SetVars(env, pairs) ==
    IF pairs = <<>> THEN [env |-> env, panicked |-> FALSE, done |-> <<>>]
    ELSE IF SetVarPanics(Head(pairs)[1], Head(pairs)[2])
    THEN [env |-> env, panicked |-> TRUE, done |-> <<>>]
    ELSE LET rest == SetVars(SetVar(env, Head(pairs)[1], Head(pairs)[2]), Tail(pairs))
         IN  [env |-> rest.env, panicked |-> rest.panicked,
              done |-> <<Head(pairs)>> \o rest.done]

\* env::remove_var for every key of a list, in order, up to the first call
\* that panics.
RECURSIVE RemoveVars(_, _)
RemoveVars(env, pairs) ==
    IF pairs = <<>> THEN [env |-> env, panicked |-> FALSE]
    ELSE IF SetVarPanics(Head(pairs)[1], "")
    THEN [env |-> env, panicked |-> TRUE]
    ELSE RemoveVars(RemoveVar(env, Head(pairs)[1]), Tail(pairs))

\* enter, lines 20-22: result.vars gets the entries of environment.env.
SavedVars(env, pairs) == pairs

NoEnvironment == [vars |-> <<>>, override_vars |-> <<>>, cwd |-> "", live |-> FALSE]

\* Drop for InvocationEnvironment (invocation_environment.rs:37-49) in a
\* process with the variables env and the working directory cwd: the process
\* state the drop of the guard leaves, and whether it panicked on the way
\* (remove_var or set_var on a key they refuse, or the unwrap of line 47 when
\* set_current_dir fails: restore_ok is the answer of the file system).
DropResult(guard, env, cwd, restore_ok) ==
    LET removed == RemoveVars(env, guard.override_vars)
        restored == SetVars(removed.env, guard.vars)
    IN  IF removed.panicked
        THEN [process_env |-> removed.env, process_cwd |-> cwd, panicked |-> TRUE]
        ELSE IF restored.panicked \/ ~restore_ok
        THEN [process_env |-> restored.env, process_cwd |-> cwd, panicked |-> TRUE]
        ELSE [process_env |-> restored.env, process_cwd |-> guard.cwd,
              panicked |-> FALSE]

\* What the file system answers to enter: whether current_dir() (line 16)
\* and set_current_dir(cwd) (line 25) succeed, and whether the directory of
\* line 16 can be entered again should result be dropped while enter unwinds.
FsAnswers ==
    [current_dir_ok : BOOLEAN, set_current_dir_ok : BOOLEAN, restore_ok : BOOLEAN]

\* A panic inside enter after result was built: unwinding drops result, which
\* runs its Drop on the guard as far as it was filled.  A panic of that drop
\* is a panic while panicking, which aborts the process.
Unwound(guard, env, cwd, restore_ok) ==
    LET dropped == DropResult(guard, env, cwd, restore_ok)
    IN  [outcome |-> IF dropped.panicked THEN "aborted" ELSE "panicked",
         environment |-> NoEnvironment,
         process_cwd |-> dropped.process_cwd,
         process_env |-> dropped.process_env]

\* InvocationEnvironment::enter (invocation_environment.rs:13-34) in a process
\* with the variables env and the working directory cwd: whether it returned
\* ("entered") or panicked, the guard returned, and the process state it
\* leaves.  Both loops go through the same map, in the same order.  The
\* unwrap of line 16 panics before result exists; the unwrap of line 25
\* panics with vars filled and override_vars empty; set_var of line 29 panics
\* with the directory changed and the earlier variables set and pushed.
EnterResult(invocation, order, env, cwd, fs) ==
    LET pairs == Entries(invocation.env, order)
        moved == IF invocation.cwd.some THEN invocation.cwd.path ELSE cwd
        set == SetVars(env, pairs)
        result == [vars |-> SavedVars(env, pairs), override_vars |-> <<>>,
                   cwd |-> cwd, live |-> TRUE]
    IN  IF ~fs.current_dir_ok
        THEN [outcome |-> "panicked", environment |-> NoEnvironment,
              process_cwd |-> cwd, process_env |-> env]
        ELSE IF invocation.cwd.some /\ ~fs.set_current_dir_ok
        THEN Unwound(result, env, cwd, fs.restore_ok)
        ELSE IF set.panicked
        THEN Unwound([result EXCEPT !.override_vars = set.done], set.env, moved,
                     fs.restore_ok)
        ELSE [outcome |-> "entered",
              environment |-> [result EXCEPT !.override_vars = set.done],
              process_cwd |-> moved,
              process_env |-> set.env]

InitEnvironment ==
    /\ process_env \in [EnvKeys -> {NotSet} \cup {SetTo(v) : v \in EnvValues}]
    /\ process_cwd \in {"/work", "/work/sample"}
    /\ environment = NoEnvironment
    /\ entered = <<>>
    /\ epc = "outside"
    /\ EngineInit
    /\ RoundTripIdle
    /\ CatalogIdle
    /\ SanitizeIdle
    /\ DriverIdle

\* InvocationEnvironment::enter (invocation_environment.rs:13-34)
Enter ==
    /\ epc \in {"outside", "dropped"}
    /\ \E invocation \in InvocationEnvs : \E order \in IterOrders(invocation.env) :
       \E fs \in FsAnswers :
        LET inside == EnterResult(invocation, order, process_env, process_cwd, fs)
        IN  /\ environment' = inside.environment
            /\ process_cwd' = inside.process_cwd
            /\ process_env' = inside.process_env
            /\ epc' = inside.outcome
            /\ entered' = <<[invocation |-> invocation, env |-> process_env,
                             cwd |-> process_cwd]>>
    /\ UNCHANGED <<engineVars, catalogVars, sanitizeVars, driverVars, roundTripVars>>

\* Drop for InvocationEnvironment (invocation_environment.rs:37-49)
Drop ==
    /\ epc = "entered"
    /\ \E restore_ok \in BOOLEAN :
        LET outside == DropResult(environment, process_env, process_cwd, restore_ok)
        IN  /\ process_env' = outside.process_env
            /\ process_cwd' = outside.process_cwd
            /\ epc' = IF outside.panicked THEN "panicked" ELSE "dropped"
    /\ environment' = NoEnvironment
    /\ UNCHANGED entered
    /\ UNCHANGED <<engineVars, catalogVars, sanitizeVars, driverVars, roundTripVars>>

NextEnvironment ==
    \/ Enter
    \/ Drop

SpecEnvironment == InitEnvironment /\ [][NextEnvironment]_vars

\* -------------------------------------------- the build plan is executed
\* FunctionInfo (crate_function_finder.rs:5-10); body_id goes with local_def_id.
FunctionInfo(function_name, local_def_id, span) ==
    [function_name |-> function_name, local_def_id |-> local_def_id, span |-> span]

\* The target kind of an invocation as cargo.rs reads it (156-199): the
\* variant, and what is_cdylib() answers.
TargetKind(kind, is_cdylib) == [kind |-> kind, is_cdylib |-> is_cdylib]

\* BuildInvocation (build_plan.rs:20-33): what the loop reads of it (the
\* package, the target kind, the compile mode, links, args, env and cwd), and
\* the functions CrateFunctionFinder finds in the crate it compiles.
Invocation(package_name, package_version, target_kind, compile_mode, links, arguments, env, cwd, crate_functions) ==
    [package_name |-> package_name, package_version |-> package_version,
     target_kind |-> target_kind, compile_mode |-> compile_mode,
     links |-> links, args |-> arguments, env |-> env, cwd |-> cwd,
     crate_functions |-> crate_functions]

BuildScript ==
    Invocation("sample", "0.1.0", TargetKind("CustomBuild", FALSE), "RunCustomBuild",
               <<>>, <<>>, <<>>, None, <<>>)

SampleBin ==
    Invocation("sample", "0.1.0", TargetKind("Bin", FALSE), "Build",
               ("/target/debug/sample" :> "/target/debug/deps/sample-1f")
                   @@ ("/target/debug/sample.d" :> "/target/debug/deps/sample-1f.d"),
               <<"--crate-name", "sample">>,
               [CARGO_PKG_NAME |-> "sample"], Some("/work/sample"),
               <<FunctionInfo("main", 1, 201), FunctionInfo("read_config", 2, 202)>>)

HelperLib ==
    Invocation("helper", "1.2.0", TargetKind("Lib", TRUE), "Build",
               ("/target/debug/libhelper.so" :> "/target/debug/deps/libhelper-2a.so"),
               <<"--crate-name", "helper">>,
               [CARGO_PKG_NAME |-> "helper", OUT_DIR |-> "sample"],
               Some("/work/helper"),
               <<FunctionInfo("helper::parse", 1, 211)>>)

EmptyLib ==
    Invocation("empty", "0.0.1", TargetKind("Lib", FALSE), "Build",
               <<>>, <<"--crate-name", "empty">>, <<>>, None, <<>>)

\* cargo.rs:74-80: the text of the message of invocation i.
CompilingMessage(i, total_invocations, invocation) ==
    "Compiling " \o ToString(i) \o "/" \o ToString(total_invocations) \o ": "
        \o invocation.package_name \o " v" \o invocation.package_version

\* The build plans cargo hands over.
BuildPlans ==
    { <<SampleBin>>, <<BuildScript, SampleBin>>, <<HelperLib, SampleBin>>,
      <<EmptyLib, HelperLib>>, <<BuildScript, HelperLib>>, <<BuildScript>> }

\* Problems check_data_flow reports; taint_source is the position of the
\* descriptor in the active catalog.
CopiedProblem ==
    TaintProblem(1, "std::env::var", IRSpanNew(1),
                 UsedProblem(<<>>, IRSpanNew(1), UsageCopied))

CallProblem ==
    TaintProblem(2, "std::env::var", IRSpanNew(1),
                 UsedProblem(<<IRSpanNew(1)>>, IRSpanNew(2),
                             UsageFunctionCall(IRSpanNew(102))))

FanOutProblem ==
    TaintProblem(1, "std::env::args", IRSpanNew(3),
                 Duplicated(<<>>, <<IRSpanNew(3), IRSpanNew(4)>>))

LoopProblem ==
    TaintProblem(2, "std::env::var", IRSpanNew(1),
                 DataDependencyLoop(<<IRSpanNew(1)>>, IRSpanNew(2)))

\* How the analysis of one body ends: check_data_flow returns its problems
\* (none, one, two different ones, the same one twice), or the builder or
\* check_data_flow panics.
CheckResult(panicked, problems) == [panicked |-> panicked, taint_problems |-> problems]

CheckResults ==
    { CheckResult(FALSE, <<>>),
      CheckResult(FALSE, <<CopiedProblem>>),
      CheckResult(FALSE, <<CallProblem, FanOutProblem>>),
      CheckResult(FALSE, <<LoopProblem, LoopProblem>>),
      CheckResult(TRUE, <<>>) }

\* impl Into<TaintProblemOwned> for TaintProblem (taint_problem.rs:41-50)
IntoTaintProblemOwned(problem) ==
    [taint_source_description |->
        actual_used_taint_sources[problem.taint_source].description,
     source_func_sig |-> problem.source_func_sig,
     source_span |-> problem.source_span,
     problem_type |-> problem.problem_type]

\* cargo.rs:103-110
AnalysisProblem(function, problem) ==
    [description |-> actual_used_taint_sources[problem.taint_source].description,
     problematic_function |-> function.function_name,
     problematic_function_loc |-> IRSpanNew(function.span),
     taint_source |-> problem.source_func_sig,
     taint_source_loc |-> problem.source_span,
     detailed |-> IntoTaintProblemOwned(problem)]

\* PackageAnalysisResult (output.rs:20-24)
Success == [tag |-> "Success", problems |-> <<>>]

Failure(problem_results) == [tag |-> "Failure", problems |-> problem_results]

\* AnalysisResult (output.rs:26-35)
AnalysisResult(package_name, package_version, result) ==
    [package_name |-> package_name, package_version |-> package_version,
     result |-> result]

\* ProgramOutput (output.rs:37-42)
ProgramOutput(tag, value) == [tag |-> tag, value |-> value]

\* impl From<&TaintSource> for TaintSourceOwned (taint_source.rs:38-45)
TaintSourceOwned(source) ==
    [functions |-> [k \in 1..Len(source.functions) |-> source.functions[k]],
     description |-> source.description]

\* impl From<&TaintSourceDefinition> for TaintSourceDefinitionOwned
TaintSourceDefinitionOwned(def) ==
    [taint_module_name |-> def.taint_module_name,
     taint_module_description |-> def.taint_module_description,
     sources |-> [k \in 1..Len(def.sources) |-> TaintSourceOwned(def.sources[k])]]

\* A test that takes one empty problem list for a clean crate.
IsSuccess_AnyEmpty(taint_problems_map) ==
    \/ DOMAIN taint_problems_map = {}
    \/ \E f \in DOMAIN taint_problems_map : taint_problems_map[f] = <<>>

\* cargo.rs:94-95: no function analysed, or no function with a problem.
IsSuccess(taint_problems_map) ==
    \/ DOMAIN taint_problems_map = {}
    \/ \A f \in DOMAIN taint_problems_map : taint_problems_map[f] = <<>>

\* The orders in which a map can hand out its keys (the map is a hash map).
IterationOrders(map) ==
    {order \in [1..Cardinality(DOMAIN map) -> DOMAIN map] :
        \A a, b \in 1..Cardinality(DOMAIN map) : order[a] = order[b] => a = b}

\* cargo.rs:99-112: the two nested loops over the functions and their problems.
RECURSIVE ProblemResults(_, _)
ProblemResults(order, taint_problems_map) ==
    IF order = <<>> THEN <<>>
    ELSE [k \in 1..Len(taint_problems_map[Head(order)]) |->
             AnalysisProblem(Head(order), taint_problems_map[Head(order)][k])]
         \o ProblemResults(Tail(order), taint_problems_map)

\* serde_json::Value: what the derived Serialize impls write.
JString(str) == [json |-> "string", value |-> str]

JNumber(n) == [json |-> "number", value |-> n]

JArray(seq) == [json |-> "array", value |-> seq]

JObject(fields) == [json |-> "object", value |-> fields]

\* IRSpan (lib.rs:44-51), derive(Serialize, Deserialize)
SerializeIRSpan(span) ==
    JObject([file_name |-> JString(span.file_name),
             start_line |-> JNumber(span.start_line),
             start_col |-> JNumber(span.start_col),
             end_line |-> JNumber(span.end_line),
             end_col |-> JNumber(span.end_col)])

DeserializeIRSpan(j) ==
    [file_name |-> j.value.file_name.value,
     start_line |-> j.value.start_line.value,
     start_col |-> j.value.start_col.value,
     end_line |-> j.value.end_line.value,
     end_col |-> j.value.end_col.value]

SerializeSpans(spans) == JArray([k \in 1..Len(spans) |-> SerializeIRSpan(spans[k])])

DeserializeSpans(j) == [k \in 1..Len(j.value) |-> DeserializeIRSpan(j.value[k])]

\* A serialiser that writes every usage as a unit variant.
SerializeTaintUsageType_NameOnly(usage) == JString(usage.kind)

\* TaintUsageType (taint_problem.rs:6-13): a unit variant is written as its
\* name, FunctionCall(span) as an object with the span under the name.
SerializeTaintUsageType(usage) ==
    IF usage.kind = "FunctionCall"
    THEN JObject([FunctionCall |-> SerializeIRSpan(usage.span)])
    ELSE JString(usage.kind)

DeserializeTaintUsageType(j) ==
    IF j.json = "string" THEN [kind |-> j.value, span |-> NoSpan]
    ELSE UsageFunctionCall(DeserializeIRSpan(j.value.FunctionCall))

\* TaintProblemType (taint_problem.rs:15-30): an object with the fields of
\* the variant under the name of the variant.
SerializeTaintProblemType(problem_type) ==
    CASE problem_type.type = "DataDependencyLoop" ->
            JObject([DataDependencyLoop |-> JObject(
                [statement_chain |-> SerializeSpans(problem_type.statement_chain),
                 loop_closure |-> SerializeIRSpan(problem_type.loop_closure)])])
      [] problem_type.type = "Duplicated" ->
            JObject([Duplicated |-> JObject(
                [statement_chain |-> SerializeSpans(problem_type.statement_chain),
                 targets |-> SerializeSpans(problem_type.targets)])])
      [] problem_type.type = "Used" ->
            JObject([Used |-> JObject(
                [statement_chain |-> SerializeSpans(problem_type.statement_chain),
                 used_in |-> SerializeIRSpan(problem_type.used_in),
                 usage_type |-> SerializeTaintUsageType(problem_type.usage_type)])])

DeserializeTaintProblemType(j) ==
    CASE "DataDependencyLoop" \in DOMAIN j.value ->
            DataDependencyLoop(
                DeserializeSpans(j.value.DataDependencyLoop.value.statement_chain),
                DeserializeIRSpan(j.value.DataDependencyLoop.value.loop_closure))
      [] "Duplicated" \in DOMAIN j.value ->
            Duplicated(
                DeserializeSpans(j.value.Duplicated.value.statement_chain),
                DeserializeSpans(j.value.Duplicated.value.targets))
      [] "Used" \in DOMAIN j.value ->
            UsedProblem(
                DeserializeSpans(j.value.Used.value.statement_chain),
                DeserializeIRSpan(j.value.Used.value.used_in),
                DeserializeTaintUsageType(j.value.Used.value.usage_type))

\* TaintProblemOwned (taint_problem.rs:52-58), derive(Serialize, Deserialize)
SerializeTaintProblemOwned(owned) ==
    JObject([taint_source_description |-> JString(owned.taint_source_description),
             source_func_sig |-> JString(owned.source_func_sig),
             source_span |-> SerializeIRSpan(owned.source_span),
             problem_type |-> SerializeTaintProblemType(owned.problem_type)])

DeserializeTaintProblemOwned(j) ==
    [taint_source_description |-> j.value.taint_source_description.value,
     source_func_sig |-> j.value.source_func_sig.value,
     source_span |-> DeserializeIRSpan(j.value.source_span),
     problem_type |-> DeserializeTaintProblemType(j.value.problem_type)]

\* AnalysisProblem (output.rs:10-18), derive(Serialize)
SerializeAnalysisProblem(problem) ==
    JObject([description |-> JString(problem.description),
             problematic_function |-> JString(problem.problematic_function),
             problematic_function_loc |-> SerializeIRSpan(problem.problematic_function_loc),
             taint_source |-> JString(problem.taint_source),
             taint_source_loc |-> SerializeIRSpan(problem.taint_source_loc),
             detailed |-> SerializeTaintProblemOwned(problem.detailed)])

\* PackageAnalysisResult (output.rs:20-24)
SerializePackageAnalysisResult(result) ==
    IF result.tag = "Success" THEN JString("Success")
    ELSE JObject([Failure |-> JArray([k \in 1..Len(result.problems) |->
                                 SerializeAnalysisProblem(result.problems[k])])])

\* AnalysisResult (output.rs:26-35); the version is written as its string.
SerializeAnalysisResult(result) ==
    JObject([package_name |-> JString(result.package_name),
             package_version |-> JString(result.package_version),
             result |-> SerializePackageAnalysisResult(result.result)])

\* TaintSourceDefinitionOwned (taint_source.rs:19-31)
SerializeTaintSourceDefinitionOwned(def) ==
    JObject([taint_module_name |-> JString(def.taint_module_name),
             taint_module_description |-> JString(def.taint_module_description),
             sources |-> JArray([k \in 1..Len(def.sources) |->
                JObject([functions |-> JArray([n \in 1..Len(def.sources[k].functions) |->
                                          JString(def.sources[k].functions[n])]),
                         description |-> JString(def.sources[k].description)])])])

\* ProgramOutput (output.rs:37-42, 174-177): to_json; each of the three
\* variants is written as an object with the value under its name.
SerializeProgramOutput(output) ==
    CASE output.tag = "AnalysisResult" ->
            JObject([AnalysisResult |-> SerializeAnalysisResult(output.value)])
      [] output.tag = "TaintSourceList" ->
            JObject([TaintSourceList |-> SerializeTaintSourceDefinitionOwned(output.value)])
      [] output.tag = "Message" ->
            JObject([Message |-> JString(output.value)])

\* to_format of a message (output.rs:66-71, 169, 174-177): the text itself
\* on the console, the serialised ProgramOutput::Message as JSON.
MessageToFormat(message, format) ==
    IF format = "Console" THEN message
    ELSE SerializeProgramOutput(ProgramOutput("Message", message))


\* ------------------------------------------------ the build script commands
\* str::strip_prefix
StripPrefix(text, prefix) ==
    IF Len(prefix) <= Len(text) /\ SubSeq(text, 1, Len(prefix)) = prefix
    THEN [some |-> TRUE, rest |-> SubSeq(text, Len(prefix) + 1, Len(text))]
    ELSE [some |-> FALSE, rest |-> ""]

\* str::split with a separator of one character
RECURSIVE Split(_, _)
Split(text, separator) ==
    LET at == {i \in 1..Len(text) : SubSeq(text, i, i) = separator}
    IN  IF at = {} THEN <<text>>
        ELSE LET first == CHOOSE i \in at : \A j \in at : i <= j
             IN  <<SubSeq(text, 1, first - 1)>>
                 \o Split(SubSeq(text, first + 1, Len(text)), separator)

\* [&str]::join
RECURSIVE Join(_, _)
Join(parts, separator) ==
    IF parts = <<>> THEN ""
    ELSE IF Len(parts) = 1 THEN parts[1]
    ELSE parts[1] \o separator \o Join(Tail(parts), separator)

\* Option<String>
NoString == [some |-> FALSE, value |-> ""]

SomeString(value) == [some |-> TRUE, value |-> value]

\* BuildScriptCommand (cargo.rs:335-351): the variant and its fields.
BuildScriptCommand(variant, first, second) ==
    [variant |-> variant, first |-> first, second |-> second]

\* What parse returns: None, Some(Err(..)) or Some(Ok(command)).
ParsedNone == [tag |-> "None"]

ParsedErr(message) == [tag |-> "Err", message |-> message]

ParsedOk(command) == [tag |-> "Ok", command |-> command]

\* BuildScriptCommand::parse (cargo.rs:354-421): the prefixes are tried in
\* the order of the source.
Parse(text) ==
    LET link_arg == StripPrefix(text, "cargo:rustc-link-arg=")
        link_arg_bin == StripPrefix(text, "cargo:rustc-link-arg-bin=")
        link_arg_bins == StripPrefix(text, "cargo:rustc-link-arg-bins=")
        link_lib == StripPrefix(text, "cargo:rustc-link-lib=")
        link_arg_tests == StripPrefix(text, "cargo:rustc-link-arg=tests=")
        link_arg_examples == StripPrefix(text, "cargo:rustc-link-arg=examples=")
        link_arg_benches == StripPrefix(text, "cargo:rustc-link-arg=benches=")
        link_search == StripPrefix(text, "cargo:rustc-link-search=")
        flags == StripPrefix(text, "cargo:rustc-flags=")
        cfg == StripPrefix(text, "cargo:rustc-cfg=")
        env == StripPrefix(text, "cargo:rustc-env=")
        cdylib_link_arg == StripPrefix(text, "cargo:rustc-cdylib-link-arg=")
        rerun_if_changed == StripPrefix(text, "cargo:rerun-if-changed=")
        check_cfg == StripPrefix(text, "cargo:rustc-check-cfg=")
    IN  IF link_arg.some
        THEN ParsedOk(BuildScriptCommand("LinkArg", link_arg.rest, ""))
        ELSE IF link_arg_bin.some
        THEN LET parts == Split(link_arg_bin.rest, "=")
             IN  IF Len(parts) < 2
                 THEN ParsedErr("Link arg not properly formatted")
                 ELSE ParsedOk(BuildScriptCommand("LinkArgBin", parts[1],
                                                  Join(Tail(parts), "=")))
        ELSE IF link_arg_bins.some
        THEN ParsedOk(BuildScriptCommand("LinkArgBins", link_arg_bins.rest, ""))
        ELSE IF link_lib.some
        THEN ParsedOk(BuildScriptCommand("LinkLib", link_lib.rest, ""))
        ELSE IF link_arg_tests.some
        THEN ParsedOk(BuildScriptCommand("LinkArgTests", link_arg_tests.rest, ""))
        ELSE IF link_arg_examples.some
        THEN ParsedOk(BuildScriptCommand("LinkArgExamples", link_arg_examples.rest, ""))
        ELSE IF link_arg_benches.some
        THEN ParsedOk(BuildScriptCommand("LinkArgBenches", link_arg_benches.rest, ""))
        ELSE IF link_search.some
        THEN LET parts == Split(link_search.rest, "=")
             IN  IF Len(parts) = 1
                 THEN ParsedOk(BuildScriptCommand("LinkSearch", NoString, parts[1]))
                 ELSE ParsedOk(BuildScriptCommand("LinkSearch", SomeString(parts[1]),
                                                  Join(Tail(parts), "=")))
        ELSE IF flags.some
        THEN ParsedOk(BuildScriptCommand("Flags", flags.rest, ""))
        ELSE IF cfg.some
        THEN LET parts == Split(cfg.rest, "=")
             IN  IF Len(parts) = 1
                 THEN ParsedOk(BuildScriptCommand("Cfg", parts[1], NoString))
                 ELSE ParsedOk(BuildScriptCommand("Cfg", parts[1],
                                                  SomeString(Join(Tail(parts), "="))))
        ELSE IF env.some
        THEN LET parts == Split(env.rest, "=")
             IN  IF Len(parts) < 2
                 THEN ParsedErr("Env not properly formatted")
                 ELSE ParsedOk(BuildScriptCommand("Env", parts[1],
                                                  Join(Tail(parts), "=")))
        ELSE IF cdylib_link_arg.some
        THEN ParsedOk(BuildScriptCommand("CdylibLinkArg", cdylib_link_arg.rest, ""))
        ELSE IF rerun_if_changed.some
        THEN ParsedOk(BuildScriptCommand("RerunIfChanged", rerun_if_changed.rest, ""))
        ELSE IF check_cfg.some
        THEN ParsedOk(BuildScriptCommand("RustcCheckCfg", check_cfg.rest, ""))
        ELSE ParsedNone

\* next.args.push for every element of a list
PushArgs(next, pushed) == [next EXCEPT !.args = @ \o pushed]

\* cargo.rs:219-224: the parts of the flags that begin with -l or -L.
LinkFlags(flags) ==
    SelectSeq(Split(flags, " "),
              LAMBDA part : StripPrefix(part, "-l").some \/ StripPrefix(part, "-L").some)

\* Map::insert
EnvInsert(env, key, value) ==
    [k \in DOMAIN env \cup {key} |-> IF k = key THEN value ELSE env[k]]

\* cargo.rs:155-246: what a command of the build script does to the next
\* invocation of the plan.
ApplyCommand(cmd, next) ==
    LET kind == next.target_kind.kind
        link_arg == <<"-C", "link-arg=" \o cmd.first>>
    IN  CASE cmd.variant = "LinkArg" ->
                IF kind \in {"Bench", "Bin", "ExampleBin", "Test"}
                   \/ next.target_kind.is_cdylib
                THEN PushArgs(next, link_arg) ELSE next
          [] cmd.variant = "LinkArgBin" ->
                IF kind = "Bin" /\ next.package_name = cmd.first
                THEN PushArgs(next, <<"-C", "link-arg=" \o cmd.second>>) ELSE next
          [] cmd.variant = "LinkArgBins" ->
                IF kind = "Bin" THEN PushArgs(next, link_arg) ELSE next
          [] cmd.variant = "LinkLib" ->
                IF kind = "Lib" THEN PushArgs(next, <<"-l", cmd.first>>) ELSE next
          [] cmd.variant = "LinkArgTests" ->
                IF kind = "Test" THEN PushArgs(next, link_arg) ELSE next
          [] cmd.variant = "LinkArgExamples" ->
                IF kind \in {"ExampleBin", "ExampleLib"}
                THEN PushArgs(next, link_arg) ELSE next
          [] cmd.variant = "LinkArgBenches" ->
                IF kind = "Bench" THEN PushArgs(next, link_arg) ELSE next
          [] cmd.variant = "LinkSearch" ->
                PushArgs(next, <<"-L", (IF cmd.first.some
                                        THEN cmd.first.value \o "=" ELSE "")
                                       \o cmd.second>>)
          [] cmd.variant = "Flags" -> PushArgs(next, LinkFlags(cmd.first))
          [] cmd.variant = "Cfg" ->
                PushArgs(next, <<"--cfg", IF cmd.second.some
                                          THEN cmd.first \o "=" \o cmd.second.value
                                          ELSE cmd.first>>)
          [] cmd.variant = "Env" ->
                [next EXCEPT !.env = EnvInsert(@, cmd.first, cmd.second)]
          [] cmd.variant = "CdylibLinkArg" ->
                IF next.target_kind.is_cdylib THEN PushArgs(next, link_arg) ELSE next
          [] cmd.variant \in {"RustcCheckCfg", "RerunIfChanged"} -> next

\* cargo.rs:141-249: the lines the script printed, one after the other.  A
\* line that is no command is reported on stdout; a malformed command ends
\* execute_build_plan with its error; a command changes the next invocation
\* when there is one.
RECURSIVE ApplyOutput(_, _, _, _)
ApplyOutput(lines, has_next, next, printed) ==
    IF lines = <<>> THEN [error |-> "", next |-> next, printed |-> printed]
    ELSE LET parsed == Parse(Head(lines))
         IN  CASE parsed.tag = "None" ->
                     ApplyOutput(Tail(lines), has_next, next,
                                 Append(printed, " - Unknown command: " \o Head(lines)))
               [] parsed.tag = "Err" ->
                     [error |-> parsed.message, next |-> next, printed |-> printed]
               [] parsed.tag = "Ok" ->
                     ApplyOutput(Tail(lines), has_next,
                                 IF has_next THEN ApplyCommand(parsed.command, next)
                                 ELSE next,
                                 printed)

\* How the run of the script ends (cargo.rs:119-139): an error of the
\* operating system (current_dir, spawn, wait, read_to_string), an exit
\* status that is no success, or the text it printed.  The output is read
\* after the script has exited (131-139): a script that prints more than
\* the pipe holds never exits, and wait never returns.
ScriptRun(status, output) == [status |-> status, output |-> output]

ScriptOutputs ==
    { <<>>,
      <<"cargo:rustc-env=OUT_DIR=helper">>,
      <<"cargo:warning=hello", "cargo::rerun-if-env-changed=X">>,
      <<"cargo:warning=hello", "cargo:rustc-env=OUT_DIR">>,
      <<"cargo:rustc-env==x">>,
      <<"cargo:rustc-link-arg-bin=sample=-s", "cargo:rustc-link-arg-bin=helper">>,
      <<"cargo:rustc-link-arg=tests=-x", "cargo:rustc-link-arg-bins=-s",
        "cargo:rustc-cdylib-link-arg=-z">>,
      <<"cargo:rustc-link-lib=ssl", "cargo:rustc-link-search=native=/usr/lib",
        "cargo:rustc-link-search=/opt">>,
      <<"cargo:rustc-flags=-l ssl -L /usr/lib -O", "cargo:rustc-cfg=unix",
        "cargo:rustc-cfg=level=2=b">>,
      <<"cargo:rerun-if-changed=build.rs", "cargo:rustc-check-cfg=cfg(x)",
        "cargo:rustc-env=CARGO_PKG_NAME=a=b">> }

ScriptRuns ==
    {ScriptRun(status, <<>>) : status \in {"io_error", "exit_failure", "blocked"}}
        \cup {ScriptRun("success", output) : output \in ScriptOutputs}

\* What the file system answers for one hard link (cargo.rs:257-266).
LinkAnswers ==
    [link_exists : BOOLEAN, remove_ok : BOOLEAN, target_exists : BOOLEAN,
     hard_link_ok : BOOLEAN]

\* cargo.rs:255-269: the hard links of the invocation, in the order of the
\* map: "" when all are done, or the error that ends execute_build_plan.
RECURSIVE CreateHardlinks(_, _)
CreateHardlinks(order, answers) ==
    IF order = <<>> THEN ""
    ELSE LET answer == answers[Head(order)]
         IN  IF answer.link_exists /\ ~answer.remove_ok THEN "err_io"
             ELSE IF ~answer.target_exists THEN CreateHardlinks(Tail(order), answers)
             ELSE IF ~answer.hard_link_ok THEN "err_hardlink"
             ELSE CreateHardlinks(Tail(order), answers)

\* What creating the hard links of an invocation can end in, over the orders
\* of the map and the answers of the file system.
HardlinkOutcomes(links) ==
    {CreateHardlinks(order, answers) :
        order \in IterOrders(links), answers \in [DOMAIN links -> LinkAnswers]}

\* execute_build_plan is entered with a build plan; the active catalog has
\* been selected from the prefix std::env.
InitDriver ==
    /\ EngineInit
    /\ RoundTripIdle
    /\ SanitizeIdle
    /\ process_env \in {[k \in EnvKeys |-> NotSet],
                        [k \in EnvKeys |-> IF k = "CARGO_PKG_NAME"
                                           THEN SetTo("sample") ELSE NotSet]}
    /\ process_cwd = "/work"
    /\ environment = NoEnvironment
    /\ entered = <<>>
    /\ epc = "outside"
    /\ taint_source_definitions = <<StdModule, WrapModule>>
    /\ \E list \in BOOLEAN, format \in {"Console", "Json"} :
          args = [taint_sources |-> <<"std::env">>, list_taint_sources |-> list,
                  output_format |-> format]
    /\ actual_used_taint_sources =
          ActualUsedTaintSources(<<StdModule, WrapModule>>, <<"std::env">>)
    /\ cpc = "selected"
    /\ build_plan \in BuildPlans
    /\ current = 1
    /\ functions = <<>>
    /\ callback_taint_problems = <<>>
    /\ analysed = <<>>
    /\ results = <<>>
    /\ json = <<>>
    /\ stdout = <<>>
    /\ dpc = "start"

\* cargo.rs:59-67: the modules of the catalog are listed on request.
ListTaintSources ==
    /\ dpc = "start"
    /\ results' =
          IF args.list_taint_sources
          THEN [k \in 1..Len(taint_source_definitions) |->
                   ProgramOutput("TaintSourceList",
                       TaintSourceDefinitionOwned(taint_source_definitions[k]))]
          ELSE <<>>
    /\ dpc' = "invocation"
    /\ UNCHANGED <<build_plan, current, functions, callback_taint_problems,
                   analysed, json, stdout>>
    /\ UNCHANGED <<engineVars, catalogVars, sanitizeVars, environmentVars, roundTripVars>>

\* cargo.rs:72-82: the message printed at the start of every iteration.
CompilingLine ==
    MessageToFormat(CompilingMessage(current, Len(build_plan), build_plan[current]),
                    args.output_format)

PrintCompiling == stdout' = Append(stdout, CompilingLine)

\* cargo.rs:72-90, 304-329 and callbacks.rs:58-79: the message is printed;
\* a Build invocation enters the environment of the invocation and runs the
\* compiler with fresh callbacks; mir_analysis collects the functions.  A
\* panic of enter (cargo.rs:313) is caught nowhere: no callbacks are built,
\* no compiler runs, and the process ends with the panic, or is aborted when
\* the drop of the half-built guard panics as well.
RunCompiler ==
    /\ dpc = "invocation"
    /\ current <= Len(build_plan)
    /\ build_plan[current].compile_mode = "Build"
    /\ PrintCompiling
    /\ \E order \in IterOrders(build_plan[current].env) : \E fs \in FsAnswers :
        LET inside == EnterResult(build_plan[current], order, process_env,
                                  process_cwd, fs)
        IN  /\ environment' = inside.environment
            /\ process_cwd' = inside.process_cwd
            /\ process_env' = inside.process_env
            /\ epc' = inside.outcome
            /\ IF inside.outcome = "entered"
               THEN /\ functions' = build_plan[current].crate_functions
                    /\ callback_taint_problems' = <<>>
                    /\ dpc' = "function"
               ELSE /\ dpc' = inside.outcome
                    /\ UNCHANGED <<functions, callback_taint_problems>>
    /\ entered' = <<[invocation |-> InvocationEnv(build_plan[current].env,
                                                  build_plan[current].cwd),
                     env |-> process_env, cwd |-> process_cwd]>>
    /\ UNCHANGED <<build_plan, current, analysed, results, json>>
    /\ UNCHANGED <<engineVars, catalogVars, sanitizeVars, roundTripVars>>

\* The guard of the invocation goes out of scope (cargo.rs:330, or the
\* early return at 329, or unwinding): its drop runs.  restore_ok is what the
\* file system answers to set_current_dir of line 47.
DropEnvironment(restore_ok) ==
    LET outside == DropResult(environment, process_env, process_cwd, restore_ok)
    IN  /\ process_env' = outside.process_env
        /\ process_cwd' = outside.process_cwd
        /\ environment' = NoEnvironment
        /\ epc' = IF outside.panicked THEN "panicked" ELSE "dropped"
        /\ UNCHANGED entered

\* Whether that drop panics.
DropPanics(restore_ok) ==
    DropResult(environment, process_env, process_cwd, restore_ok).panicked

\* rustc.rs:76-90 and cargo.rs:89, 329: the compiler reports errors, before
\* the functions are analysed (callbacks.rs:38) or after the analysis
\* (callbacks.rs:40-41 and the rest of the compilation); run_compiler returns
\* Err("Compiler failed with exit code ..") and execute_build_plan returns
\* it, unless the drop of the guard on the way out panics.
CompilerFailed ==
    /\ dpc = "function"
    /\ functions = build_plan[current].crate_functions \/ functions = <<>>
    /\ \E restore_ok \in BOOLEAN :
        /\ DropEnvironment(restore_ok)
        /\ dpc' = IF DropPanics(restore_ok) THEN "panicked" ELSE "err_compiler"
    /\ UNCHANGED <<build_plan, current, functions, callback_taint_problems,
                   analysed, results, json, stdout>>
    /\ UNCHANGED <<engineVars, catalogVars, sanitizeVars, roundTripVars>>

\* cargo.rs:72-82, 118-269: the message is printed and a build script is
\* run as a child process with env and cwd of the invocation.  Its commands
\* change the next invocation, its other lines are printed, and the hard
\* links of the invocation are created; it yields no analysis result.  An
\* error of the run, of a command or of a link ends execute_build_plan.
RunCustomBuild ==
    /\ dpc = "invocation"
    /\ current <= Len(build_plan)
    /\ build_plan[current].compile_mode = "RunCustomBuild"
    /\ \E run \in ScriptRuns, linked \in HardlinkOutcomes(build_plan[current].links) :
        LET has_next == current < Len(build_plan)
            applied == ApplyOutput(run.output, has_next,
                                   IF has_next THEN build_plan[current + 1]
                                   ELSE build_plan[current],
                                   <<>>)
        IN  IF run.status # "success"
            THEN /\ dpc' = CASE run.status = "io_error" -> "err_io"
                             [] run.status = "exit_failure" -> "err_build_script"
                             [] run.status = "blocked" -> "waiting"
                 /\ PrintCompiling
                 /\ UNCHANGED <<build_plan, current>>
            ELSE /\ stdout' = Append(stdout, CompilingLine) \o applied.printed
                 /\ build_plan' = IF has_next
                                  THEN [build_plan EXCEPT ![current + 1] = applied.next]
                                  ELSE build_plan
                 /\ IF applied.error # ""
                    THEN /\ dpc' = IF applied.error = "Env not properly formatted"
                                   THEN "err_env_format" ELSE "err_link_arg_format"
                         /\ UNCHANGED current
                    ELSE IF linked # ""
                    THEN dpc' = linked /\ UNCHANGED current
                    ELSE current' = current + 1 /\ UNCHANGED dpc
    /\ UNCHANGED <<functions, callback_taint_problems, analysed, results, json>>
    /\ UNCHANGED <<engineVars, catalogVars, sanitizeVars, environmentVars, roundTripVars>>

\* callbacks.rs:80-118: one iteration of the loop over the functions.  A
\* panic of the builder or of check_data_flow is not caught in the loop: it
\* leaves mir_analysis and the compiler run, which rustc_driver ends with a
\* failure exit code (run_compiler returns Err, rustc.rs:83-90) or by
\* unwinding further; on both ways the guard of the invocation is dropped.
\* A panic of that drop turns the Err into a panic, and a panic that is
\* already unwinding into an abort.
AnalyseFunction ==
    /\ dpc = "function"
    /\ functions # <<>>
    /\ \E check \in CheckResults :
        /\ analysed' = Append(analysed,
              [invocation |-> current, function |-> Head(functions), check |-> check])
        /\ IF check.panicked
           THEN /\ \E restore_ok \in BOOLEAN, caught \in BOOLEAN :
                    /\ DropEnvironment(restore_ok)
                    /\ dpc' = IF caught
                              THEN IF DropPanics(restore_ok)
                                   THEN "panicked" ELSE "err_compiler"
                              ELSE IF DropPanics(restore_ok)
                                   THEN "aborted" ELSE "panicked"
                /\ UNCHANGED <<functions, callback_taint_problems>>
           ELSE /\ callback_taint_problems' =
                      MapInsert(callback_taint_problems, Head(functions),
                                check.taint_problems)
                /\ functions' = Tail(functions)
                /\ UNCHANGED <<dpc, environmentVars>>
    /\ UNCHANGED <<build_plan, current, results, json, stdout>>
    /\ UNCHANGED <<engineVars, catalogVars, sanitizeVars, roundTripVars>>

\* cargo.rs:329-332, 91-116, 255-273: the compiler run is over with exit
\* code 0 and the guard is dropped; the problems of the callbacks become the
\* analysis result of the package, the hard links of the invocation are
\* created and the result is pushed.  A panic of the drop (cargo.rs:330)
\* ends the process, and an error of a link ends execute_build_plan, before
\* the result is pushed.
AssembleResult ==
    /\ dpc = "function"
    /\ functions = <<>>
    /\ \E restore_ok \in BOOLEAN :
        /\ DropEnvironment(restore_ok)
        /\ IF DropPanics(restore_ok)
           THEN dpc' = "panicked" /\ UNCHANGED <<results, current>>
           ELSE \E order \in IterationOrders(callback_taint_problems),
                   linked \in HardlinkOutcomes(build_plan[current].links) :
               IF linked # ""
               THEN dpc' = linked /\ UNCHANGED <<results, current>>
               ELSE /\ results' = Append(results,
                          ProgramOutput("AnalysisResult",
                              AnalysisResult(build_plan[current].package_name,
                                  build_plan[current].package_version,
                                  IF IsSuccess(callback_taint_problems)
                                  THEN Success
                                  ELSE Failure(ProblemResults(order,
                                                   callback_taint_problems)))))
                    /\ current' = current + 1
                    /\ dpc' = "invocation"
    /\ UNCHANGED <<build_plan, functions, callback_taint_problems, analysed, json,
                   stdout>>
    /\ UNCHANGED <<engineVars, catalogVars, sanitizeVars, roundTripVars>>

\* cargo.rs:268: Ok(results)
Finish ==
    /\ dpc = "invocation"
    /\ current > Len(build_plan)
    /\ dpc' = "finished"
    /\ UNCHANGED <<build_plan, current, functions, callback_taint_problems,
                   analysed, results, json, stdout>>
    /\ UNCHANGED <<engineVars, catalogVars, sanitizeVars, environmentVars, roundTripVars>>

\* output.rs:174-177: every output of the run is written as JSON.
ToJson ==
    /\ dpc = "finished"
    /\ json' = [k \in 1..Len(results) |-> SerializeProgramOutput(results[k])]
    /\ dpc' = "written"
    /\ UNCHANGED <<build_plan, current, functions, callback_taint_problems,
                   analysed, results, stdout>>
    /\ UNCHANGED <<engineVars, catalogVars, sanitizeVars, environmentVars, roundTripVars>>

NextDriver ==
    \/ ListTaintSources
    \/ RunCompiler
    \/ CompilerFailed
    \/ RunCustomBuild
    \/ AnalyseFunction
    \/ AssembleResult
    \/ Finish
    \/ ToJson

SpecDriver == InitDriver /\ [][NextDriver]_vars

\* ------------------------------- a collection of problems, written and read
\* The longest collection converted.
MaxProblems == 3

\* A problem of a value returned to the caller.
ReturnedProblem ==
    TaintProblem(1, "std::env::args", IRSpanNew(5),
                 UsedProblem(<<IRSpanNew(5), IRSpanNew(6)>>, IRSpanNew(7),
                             UsageReturnedToCaller))

SampleProblems ==
    {CopiedProblem, CallProblem, FanOutProblem, LoopProblem, ReturnedProblem}

\* The collections of up to MaxProblems problems, in every order and with
\* repetitions.
Collections == UNION {[1..n -> SampleProblems] : n \in 0..MaxProblems}

\* check_data_flow has returned a collection of problems; their descriptors
\* are those of the catalog selected from the prefix std::env.
InitRoundTrip ==
    /\ EngineInit
    /\ SanitizeIdle
    /\ DriverIdle
    /\ EnvironmentIdle
    /\ taint_source_definitions = <<StdModule, WrapModule>>
    /\ args = [taint_sources |-> <<"std::env">>, list_taint_sources |-> FALSE,
               output_format |-> "Json"]
    /\ actual_used_taint_sources =
          ActualUsedTaintSources(<<StdModule, WrapModule>>, <<"std::env">>)
    /\ cpc = "selected"
    /\ collection \in Collections
    /\ structured = <<>>
    /\ read_back = <<>>
    /\ rpc = "found"

\* taint_problem.rs:41-58: every problem is converted with into() and the
\* Vec<TaintProblemOwned> is serialised, a sequence as a JSON array in the
\* order of the Vec.
ToStructured ==
    /\ rpc = "found"
    /\ structured' =
          JArray([k \in 1..Len(collection) |->
                     SerializeTaintProblemOwned(IntoTaintProblemOwned(collection[k]))])
    /\ rpc' = "written"
    /\ UNCHANGED <<collection, read_back>>
    /\ UNCHANGED <<engineVars, catalogVars, sanitizeVars, driverVars, environmentVars>>

\* taint_problem.rs:52-58: the derived Deserialize reads the array back.
FromStructured ==
    /\ rpc = "written"
    /\ read_back' = [k \in 1..Len(structured.value) |->
                        DeserializeTaintProblemOwned(structured.value[k])]
    /\ rpc' = "read"
    /\ UNCHANGED <<collection, structured>>
    /\ UNCHANGED <<engineVars, catalogVars, sanitizeVars, driverVars, environmentVars>>

NextRoundTrip ==
    \/ ToStructured
    \/ FromStructured

SpecRoundTrip == InitRoundTrip /\ [][NextRoundTrip]_vars

\* ------------------------------------------------------------ the claims
\* What the claims speak of, read off the graph and the final markings.
Done == pc = "done"

Range(seq) == {seq[i] : i \in 1..Len(seq)}

Last(seq) == seq[Len(seq)]

HasMarking(n, tag) ==
    IsMarked(markings, Nodes[n]) /\ markings[Nodes[n]].tag = tag

\* The call nodes marked as taint sources.
SourceNodes == {n \in 1..Len(Nodes) : HasMarking(n, "TaintSource")}

\* The problems reported for source node s.
ProblemsOf(s) == {i \in 1..Len(taint_problems) : problem_source[i] = s}

\* The source has exactly one outgoing edge and it is move-only.
HasMoveHop(s) == Len(OutEdges(s)) = 1 /\ IsMoveOnly(Edges[OutEdges(s)[1]])

Hop(s) == Edges[OutEdges(s)[1]].target

\* A node's only neighbour is a Tainted local reached over a move-only edge.
MovesOn(n) ==
    /\ Len(Neighbours(n)) = 1
    /\ Nodes[Neighbours(n)[1]].kind = "Local"
    /\ HasMarking(Neighbours(n)[1], "Tainted")
    /\ IsMoveOnly(EdgeConnecting(n, Neighbours(n)[1]))

\* The nodes a walk passes after the first hop: it moves on while the only
\* neighbour is a Tainted local behind a move-only edge it has not yet seen.
RECURSIVE ChainFrom(_)
ChainFrom(path) ==
    IF MovesOn(Last(path)) /\ Neighbours(Last(path))[1] \notin Range(path)
    THEN ChainFrom(Append(path, Neighbours(Last(path))[1]))
    ELSE path

WalkPath(s) == ChainFrom(<<Hop(s)>>)

\* The only neighbour of node n, when it has exactly one.
Only(n) == Neighbours(n)[1]

\* C1 (as claimed): a source whose single outgoing edge is move-only and leads
\* to a node marked TaintSink has no problem reported, whatever edges leave
\* that node.
C1_SinkAfterFirstHopIsSilent ==
    Done => \A s \in SourceNodes :
        (HasMoveHop(s) /\ HasMarking(Hop(s), "TaintSink")) => ProblemsOf(s) = {}

\* C2 (as claimed): a source with two or more outgoing edges has exactly one
\* problem, a Duplicated with an empty chain and one target per outgoing edge.
C2_OneDuplicatedPerSource ==
    Done => \A s \in SourceNodes :
        Len(OutEdges(s)) >= 2 =>
            /\ Cardinality(ProblemsOf(s)) = 1
            /\ \A i \in ProblemsOf(s) :
                /\ taint_problems[i].problem_type.type = "Duplicated"
                /\ taint_problems[i].problem_type.statement_chain = <<>>
                /\ Len(taint_problems[i].problem_type.targets) = Len(OutEdges(s))

\* The walk of source s ends at a node without outgoing neighbours.
DeadEnd(s) ==
    \/ Len(OutEdges(s)) = 0
    \/ HasMoveHop(s) /\ Len(Neighbours(Last(WalkPath(s)))) = 0

\* C3: a source without outgoing edges, and a source whose walk comes to a
\* node without outgoing neighbours, has no problem reported.
C3_DeadEndIsSilent ==
    Done => \A s \in SourceNodes : DeadEnd(s) => ProblemsOf(s) = {}

\* C3 witness: a finished run in which a walk made two hops and then found a
\* node without neighbours.
C3_Witness ==
    /\ Done
    /\ \E s \in SourceNodes :
        /\ HasMoveHop(s)
        /\ Len(WalkPath(s)) >= 2
        /\ Len(Neighbours(Last(WalkPath(s)))) = 0
        /\ ProblemsOf(s) = {}

\* The walk of s goes over Tainted locals and move-only edges only and ends
\* at a node whose single neighbour is a local or a call marked TaintSink.
AbsorbedBySink(s) ==
    /\ HasMoveHop(s)
    /\ Nodes[Hop(s)].kind = "Local"
    /\ HasMarking(Hop(s), "Tainted")
    /\ Len(Neighbours(Last(WalkPath(s)))) = 1
    /\ Nodes[Only(Last(WalkPath(s)))].kind \in {"Local", "FunctionCall"}
    /\ HasMarking(Only(Last(WalkPath(s))), "TaintSink")

\* C4: a source whose walk moves over Tainted locals to a node whose single
\* neighbour is marked TaintSink has no problem reported.
C4_AbsorbedBySinkIsSilent ==
    Done => \A s \in SourceNodes : AbsorbedBySink(s) => ProblemsOf(s) = {}

\* C4 witness: source -> x -> y -> sink call, all edges move-only, nothing
\* reported.
C4_Witness ==
    /\ Done
    /\ \E s \in SourceNodes :
        /\ AbsorbedBySink(s)
        /\ Len(WalkPath(s)) >= 2
        /\ Nodes[Only(Last(WalkPath(s)))].kind = "FunctionCall"
        /\ ProblemsOf(s) = {}

\* The source has exactly one outgoing edge.
SingleEdge(s) == Edges[OutEdges(s)[1]]

\* The locations of the Used instances of an edge.
UsedSpans(edge) ==
    {IRSpanNew(edge.instances[i].span) :
        i \in {j \in 1..Len(edge.instances) : edge.instances[j].data_flow_type = Used}}

\* C5 (as claimed): a source whose single outgoing edge carries a Used
\* instance has exactly one problem, a Used{Copied} whose use-site is the
\* location of a Used instance of that edge.
C5_CopiedAtTheCopy ==
    Done => \A s \in SourceNodes :
        (Len(OutEdges(s)) = 1 /\ ~IsMoveOnly(SingleEdge(s))) =>
            /\ Cardinality(ProblemsOf(s)) = 1
            /\ \A i \in ProblemsOf(s) :
                /\ taint_problems[i].problem_type.type = "Used"
                /\ taint_problems[i].problem_type.usage_type = UsageCopied
                /\ taint_problems[i].problem_type.used_in \in UsedSpans(SingleEdge(s))

\* The walk of s comes back to a node it has visited.
LoopsBack(s) ==
    /\ HasMoveHop(s)
    /\ MovesOn(Last(WalkPath(s)))
    /\ Only(Last(WalkPath(s))) \in Range(WalkPath(s))

\* The first locations of the edges from s along its walk path.
PathSpans(s) ==
    <<FirstSpan(SingleEdge(s))>> \o
    [i \in 1..(Len(WalkPath(s)) - 1) |->
        FirstSpan(EdgeConnecting(WalkPath(s)[i], WalkPath(s)[i + 1]))]

\* C6 (as claimed): a walk that comes back to a visited node yields exactly
\* one DataDependencyLoop problem for its source; the closing edge is the one
\* from the last visited node to the revisited node, the chain the edges
\* traversed before it.
C6_OneLoopProblem ==
    Done => \A s \in SourceNodes :
        LoopsBack(s) =>
            /\ Cardinality(ProblemsOf(s)) = 1
            /\ \A i \in ProblemsOf(s) :
                /\ taint_problems[i].problem_type.type = "DataDependencyLoop"
                /\ taint_problems[i].problem_type.loop_closure =
                      FirstSpan(EdgeConnecting(Last(WalkPath(s)), Only(Last(WalkPath(s)))))
                /\ taint_problems[i].problem_type.statement_chain = PathSpans(s)

\* The walk of s stops at a node whose only neighbour is ReturnedToCaller.
EndsAtReturn(s) ==
    /\ HasMoveHop(s)
    /\ Len(Neighbours(Last(WalkPath(s)))) = 1
    /\ Nodes[Only(Last(WalkPath(s)))].kind = "ReturnedToCaller"

\* C7 (as claimed): a walk whose current node has ReturnedToCaller as its
\* only neighbour yields exactly one Used{ReturnedToCaller} problem for its
\* source, whatever the flow kind of the connecting edge.
C7_OneReturnProblem ==
    Done => \A s \in SourceNodes :
        EndsAtReturn(s) =>
            /\ Cardinality(ProblemsOf(s)) = 1
            /\ \A i \in ProblemsOf(s) :
                /\ taint_problems[i].problem_type.type = "Used"
                /\ taint_problems[i].problem_type.usage_type = UsageReturnedToCaller

\* The descriptor a TaintSource marking refers to.
Descriptor(catalog, marking) ==
    IF marking.tag = "TaintSource" THEN catalog[marking.taint_source]
    ELSE [functions |-> <<>>, description |-> ""]

\* C8 (as claimed): a node marked TaintSink or TaintSource(d) keeps that
\* marking, with the same descriptor d, in every later step of the run.
C8_MarkingsAreKept ==
    [][\A node \in DOMAIN markings :
          markings[node].tag \in {"TaintSink", "TaintSource"} =>
              /\ node \in DOMAIN markings'
              /\ markings'[node].tag = markings[node].tag
              /\ Descriptor(taint_sources', markings'[node]) =
                    Descriptor(taint_sources, markings[node])]_vars

\* A well-formed graph: no edge leads into FunctionInput (one edge per node
\* pair and non-empty instance lists hold for every graph the builder makes).
WellFormed ==
    \A e \in 1..Len(Edges) : Nodes[Edges[e].target].kind # "FunctionInput"

\* C9 (as claimed): on a well-formed graph no run of check_data_flow reaches
\* an unreachable!() or a failing unwrap.
C9_NeverPanics == WellFormed => pc # "panic"

\* The saturation has run: its queue is empty or a walk has begun.
AfterSaturation ==
    \/ pc = "saturate" /\ queue = <<>>
    \/ pc \in {"first", "walk", "panic"}
    \/ pc = "done" /\ Len(Nodes) > 0

\* What the classification scan leaves on node n, read off the node and the
\* catalog: a call named by a descriptor is a source, else a wrapper-typed
\* local or a wrapping call is a sink, else the node has no marking.
SourceByCatalog(n) ==
    /\ Nodes[n].kind = "FunctionCall"
    /\ Nodes[n].function.fndef
    /\ \E j \in 1..Len(taint_sources) :
          Contains(taint_sources[j].functions, Nodes[n].function.path)

SinkAfterScan(n) == IsSinkNode(Nodes[n]) /\ ~SourceByCatalog(n)

UnmarkedAfterScan(n) == ~SourceByCatalog(n) /\ ~IsSinkNode(Nodes[n])

\* The nodes at the end of an edge that leaves a node of the set and whose
\* origin is not a sink.
Successors(set) ==
    {Edges[e].target : e \in {x \in 1..Len(Edges) :
        Edges[x].source \in set /\ ~SinkAfterScan(Edges[x].source)}}

\* The nodes reachable from a source along a path whose intermediate nodes
\* are not sinks: the least set closed under Successors.
RECURSIVE ReachClosure(_)
ReachClosure(set) ==
    IF Successors(set) \subseteq set THEN set
    ELSE ReachClosure(set \cup Successors(set))

ReachedFromSource ==
    ReachClosure({n \in 1..Len(Nodes) : SourceByCatalog(n)})

\* C16: after saturation a node is marked Tainted iff the scan left it
\* unmarked and it is reachable from a source along a path without a sink
\* as intermediate node; every other node the scan left unmarked stays
\* unmarked.  The right-hand side does not mention any processing order, so
\* the final marking is the same for every order of queue and neighbours
\* (the graphs of the model differ in the insertion order of their edges).
C16_TaintedIffReachable ==
    AfterSaturation => \A n \in 1..Len(Nodes) :
        /\ HasMarking(n, "Tainted") <=>
              (UnmarkedAfterScan(n) /\ n \in ReachedFromSource)
        /\ (UnmarkedAfterScan(n) /\ n \notin ReachedFromSource) =>
              ~IsMarked(markings, Nodes[n])

\* C16 witness: a saturated graph with a node marked Tainted behind a source
\* and a node left unmarked because it is reachable only through a sink.
C16_Witness ==
    /\ AfterSaturation
    /\ \E e \in 1..Len(Edges) :
        /\ HasMarking(Edges[e].source, "TaintSource")
        /\ HasMarking(Edges[e].target, "Tainted")
    /\ \E e \in 1..Len(Edges) :
        /\ HasMarking(Edges[e].source, "TaintSink")
        /\ ~IsMarked(markings, Nodes[Edges[e].target])

\* The position of the first descriptor of the catalog that names the callee
\* of call node n.
FirstMatch(n) ==
    CHOOSE j \in 1..Len(taint_sources) :
        /\ Contains(taint_sources[j].functions, Nodes[n].function.path)
        /\ \A k \in 1..(j - 1) :
              ~Contains(taint_sources[k].functions, Nodes[n].function.path)

\* How often node n occurs in the list of sources.
TimesInSources(n) == Cardinality({i \in 1..Len(sources) : sources[i] = n})

\* C17 (as claimed): a call node whose callee is named by several descriptors
\* of the catalog is marked with the first of them in catalog order, its
\* problems carry that descriptor, and it is one source.
C17_FirstDescriptorWins ==
    Done => \A s \in SourceNodes :
        /\ Descriptor(taint_sources, markings[Nodes[s]]) = taint_sources[FirstMatch(s)]
        /\ \A i \in ProblemsOf(s) :
              taint_sources[taint_problems[i].taint_source] = taint_sources[FirstMatch(s)]
        /\ TimesInSources(s) = 1

\* The nodes at which the walk of source s looks at its neighbours: the
\* nodes of its path, for a source whose single edge is move-only and leads
\* to another node (the source itself is visited from the start).
WalkNodes(s) ==
    IF HasMoveHop(s) /\ Hop(s) # s THEN Range(WalkPath(s)) ELSE {}

\* Node n has exactly one outgoing neighbour and it is of one of the kinds.
SingleOf(n, kinds) ==
    Len(Neighbours(n)) = 1 /\ Nodes[Only(n)].kind \in kinds

\* Exactly one problem is reported for source s, a Used problem with the
\* given usage.
OneUsedProblem(s, usage) ==
    /\ Cardinality(ProblemsOf(s)) = 1
    /\ \A i \in ProblemsOf(s) :
        /\ taint_problems[i].problem_type.type = "Used"
        /\ taint_problems[i].problem_type.usage_type = usage

\* C18 (as claimed): the current node of a walk has one neighbour, a Local.
\* Marked TaintSink: no problem, the walk ends.  Marked Tainted behind a
\* move-only edge: the walk goes on from it.  Marked Tainted behind an edge
\* with a Used instance: exactly one Used{Copied} problem whose use-site is
\* the location of a Used instance of that edge, and the walk stops.
C18_LocalNeighbour ==
    Done => \A s \in SourceNodes : \A n \in WalkNodes(s) :
        SingleOf(n, {"Local"}) =>
            /\ HasMarking(Only(n), "TaintSink") =>
                  (n = Last(WalkPath(s)) /\ ProblemsOf(s) = {})
            /\ (HasMarking(Only(n), "Tainted") /\ IsMoveOnly(EdgeConnecting(n, Only(n)))) =>
                  (n # Last(WalkPath(s)) \/ LoopsBack(s))
            /\ (HasMarking(Only(n), "Tainted") /\ ~IsMoveOnly(EdgeConnecting(n, Only(n)))) =>
                  /\ n = Last(WalkPath(s))
                  /\ OneUsedProblem(s, UsageCopied)
                  /\ \A i \in ProblemsOf(s) :
                        taint_problems[i].problem_type.used_in
                            \in UsedSpans(EdgeConnecting(n, Only(n)))

\* C19 (as claimed): the current node of a walk has one neighbour, a
\* FunctionCall.  Marked TaintSink: no problem.  Marked TaintSource or
\* Tainted: exactly one Used{FunctionCall} problem that carries the call
\* site of that call node.  The walk ends there in both cases.
C19_CallNeighbour ==
    Done => \A s \in SourceNodes : \A n \in WalkNodes(s) :
        SingleOf(n, {"FunctionCall"}) =>
            /\ n = Last(WalkPath(s))
            /\ HasMarking(Only(n), "TaintSink") => ProblemsOf(s) = {}
            /\ (HasMarking(Only(n), "TaintSource") \/ HasMarking(Only(n), "Tainted")) =>
                  OneUsedProblem(s, UsageFunctionCall(IRSpanNew(Nodes[Only(n)].span)))

\* C20 (as claimed): the current node of a walk has one neighbour, an
\* Assembly or a ControlFlow node: exactly one Used problem with the usage
\* kind of that node is reported for the source, whatever the flow kind of
\* the edge, and the walk stops.
C20_AssemblyOrControlFlow ==
    Done => \A s \in SourceNodes : \A n \in WalkNodes(s) :
        SingleOf(n, {"Assembly", "ControlFlow"}) =>
            /\ n = Last(WalkPath(s))
            /\ OneUsedProblem(s, IF Nodes[Only(n)].kind = "Assembly"
                                 THEN UsageAssembly ELSE UsageControlFlow)

\* The descriptors of the loaded catalog that have a function name starting
\* with one of the prefixes given.
Matching ==
    {d \in Range(FlatSources(taint_source_definitions)) :
        \E k \in 1..Len(args.taint_sources) : MatchesPrefix(d, args.taint_sources[k])}

\* C14 (as claimed): without a prefix the active catalog is every descriptor
\* of every module, in declaration order; with prefixes it holds exactly the
\* descriptors with a function name starting with one of the prefixes, each
\* of them once, also when several prefixes match it.
C14_ActiveCatalog ==
    cpc = "selected" =>
        IF args.taint_sources = <<>>
        THEN actual_used_taint_sources = FlatSources(taint_source_definitions)
        ELSE /\ Range(actual_used_taint_sources) = Matching
             /\ \A i, j \in 1..Len(actual_used_taint_sources) :
                   actual_used_taint_sources[i] = actual_used_taint_sources[j] => i = j

\* The fields of the struct whose sanitizer returns an error.
Failing == {f \in 1..Len(field_sanitizers) : field_sanitizers[f] # "Ok"}

FirstFailing == CHOOSE f \in Failing : \A g \in Failing : f <= g

\* C15: the derived sanitize_value calls the field sanitizers in declaration
\* order.  With harden_sanitize all of them have been called when it
\* returns, and an error returned is that of the first failing field.
\* Without it the error of the first failing field is returned and no
\* sanitizer of a later field has been called.
C15_SanitizeOrder ==
    /\ called = [i \in 1..Len(called) |-> i]
    /\ sanitize_result \notin {"idle", "running"} =>
        /\ sanitize_result = IF Failing = {} THEN "Ok"
                             ELSE field_sanitizers[FirstFailing]
        /\ Len(called) = IF Failing = {} \/ harden_sanitize
                         THEN Len(field_sanitizers) ELSE FirstFailing

\* C15 witness: a hardened sanitize_value of a struct whose first field
\* fails and whose last field fails with another error has called all the
\* sanitizers and has returned the error of the first field.
C15_Witness ==
    /\ harden_sanitize
    /\ Len(field_sanitizers) >= 2
    /\ field_sanitizers[1] # "Ok"
    /\ field_sanitizers[Len(field_sanitizers)] \notin {"Ok", field_sanitizers[1]}
    /\ Len(called) = Len(field_sanitizers)
    /\ sanitize_result = field_sanitizers[1]

\* The Build invocations of the plan and the analysis results of the run, in
\* order: result j belongs to Build invocation j.
BuildInvocations ==
    SelectSeq([k \in 1..Len(build_plan) |-> k],
              LAMBDA k : build_plan[k].compile_mode = "Build")

AnalysisResults ==
    SelectSeq(results, LAMBDA output : output.tag = "AnalysisResult")

\* The problems check_data_flow returned for function f of invocation inv.
FoundIn(inv, f) ==
    LET a == CHOOSE x \in 1..Len(analysed) :
                 analysed[x].invocation = inv /\ analysed[x].function = f
    IN  analysed[a].check.taint_problems

\* The entries of a problem list that name function f and its span.
OfFunction(problem_results, f) ==
    SelectSeq(problem_results,
              LAMBDA a : /\ a.problematic_function = f.function_name
                         /\ a.problematic_function_loc = IRSpanNew(f.span))

\* C11: every analysis result is Success iff every function of the crate has
\* an empty problem list; a Failure holds, for every function, one entry per
\* problem found in it, with the name and span of the function, the call
\* signature, the location, the description of the descriptor and the
\* problem kind, and it holds nothing else; a finished run has one result
\* per Build invocation.
C11_ProblemsReachTheReport ==
    /\ dpc \in {"finished", "written"} => Len(AnalysisResults) = Len(BuildInvocations)
    /\ \A j \in 1..Len(AnalysisResults) :
        LET inv == BuildInvocations[j]
            fs == Range(build_plan[inv].crate_functions)
            r == AnalysisResults[j].value
        IN  /\ r.package_name = build_plan[inv].package_name
            /\ r.result.tag = "Success" <=> \A f \in fs : FoundIn(inv, f) = <<>>
            /\ r.result.tag = "Success" => r.result.problems = <<>>
            /\ r.result.tag = "Failure" =>
                /\ \A x \in 1..Len(r.result.problems) : \E f \in fs :
                      OfFunction(<<r.result.problems[x]>>, f) # <<>>
                /\ \A f \in fs :
                    LET got == OfFunction(r.result.problems, f)
                        found == FoundIn(inv, f)
                    IN  /\ Len(got) = Len(found)
                        /\ \A k \in 1..Len(got) :
                            /\ got[k].taint_source = found[k].source_func_sig
                            /\ got[k].taint_source_loc = found[k].source_span
                            /\ got[k].description =
                                  actual_used_taint_sources[found[k].taint_source].description
                            /\ got[k].detailed.problem_type = found[k].problem_type

\* C11 witness: a finished run with a Failure that holds the problems of two
\* functions, one of which reported the same problem twice.
C11_Witness ==
    /\ dpc = "finished"
    /\ \E j \in 1..Len(AnalysisResults) :
        LET inv == BuildInvocations[j]
            r == AnalysisResults[j].value
        IN  /\ r.result.tag = "Failure"
            /\ \E f, g \in Range(build_plan[inv].crate_functions) :
                /\ f # g
                /\ FoundIn(inv, f) = <<LoopProblem, LoopProblem>>
                /\ Len(OfFunction(r.result.problems, f)) = 2
                /\ Len(OfFunction(r.result.problems, g)) = 2

\* The run has ended, by its end or by a panic inside an analysis (a run the
\* compiler ended with errors of the crate is not meant).
RunOver ==
    \/ dpc \in {"finished", "written"}
    \/ /\ dpc \in {"err_compiler", "panicked", "aborted"}
       /\ \E x \in 1..Len(analysed) : analysed[x].check.panicked

\* C12 (as claimed): a panic in the analysis of one function fails that
\* function only: when the run is over every function of every Build
\* invocation has been analysed, and every invocation has its result.
C12_PanicIsContained ==
    RunOver =>
        /\ \A k \in 1..Len(BuildInvocations) :
              \A f \in Range(build_plan[BuildInvocations[k]].crate_functions) :
                  \E x \in 1..Len(analysed) :
                      /\ analysed[x].invocation = BuildInvocations[k]
                      /\ analysed[x].function = f
        /\ Len(AnalysisResults) = Len(BuildInvocations)

\* The fields of a problem, the descriptor with its function names.
FieldsOfProblem(problem) ==
    [functions |-> actual_used_taint_sources[problem.taint_source].functions,
     description |-> actual_used_taint_sources[problem.taint_source].description,
     source_func_sig |-> problem.source_func_sig,
     source_span |-> problem.source_span,
     problem_type |-> problem.problem_type]

\* The same fields of a record read back; it has no function names.
FieldsReadBack(owned) ==
    [functions |-> IF "taint_source_functions" \in DOMAIN owned
                   THEN owned.taint_source_functions ELSE <<>>,
     description |-> owned.taint_source_description,
     source_func_sig |-> owned.source_func_sig,
     source_span |-> owned.source_span,
     problem_type |-> owned.problem_type]

\* Fields without the function names of the descriptor.
WithoutFunctions(fields) == [fields EXCEPT !.functions = <<>>]

\* C13 (as claimed): a collection of problems written in the structured form
\* and read back has as many records as the collection, and the record at
\* every position has every field of the problem at that position: the
\* descriptor with its function names and its description, the call
\* signature, the span, and the problem kind with its nested spans.
C13_RoundTripKeepsAll ==
    rpc = "read" =>
        /\ Len(read_back) = Len(collection)
        /\ \A k \in 1..Len(collection) :
              FieldsReadBack(read_back[k]) = FieldsOfProblem(collection[k])

\* C13 (amended): a collection of problems written and read back has as many
\* records as the collection, in the same order, and the record at every
\* position has the description of the descriptor, the call signature, the
\* span and the problem kind with all nested spans of the problem at that
\* position; the function names of the descriptor are not part of the
\* structured form.
C13_RoundTripKeepsAllButFunctions ==
    rpc = "read" =>
        /\ Len(read_back) = Len(collection)
        /\ \A k \in 1..Len(collection) :
              WithoutFunctions(FieldsReadBack(read_back[k]))
                  = WithoutFunctions(FieldsOfProblem(collection[k]))

\* C13 witness: a collection of three problems has been read back that holds
\* the same problem twice (a loop with its chain and closure) around a
\* Used{FunctionCall} with its call site and a non-empty statement chain.
C13_Witness ==
    /\ rpc = "read"
    /\ collection = <<LoopProblem, CallProblem, LoopProblem>>
    /\ Len(read_back) = 3
    /\ read_back[1] = read_back[3]
    /\ read_back[1].problem_type.loop_closure = IRSpanNew(2)
    /\ read_back[2].problem_type.usage_type = UsageFunctionCall(IRSpanNew(102))
    /\ read_back[2].problem_type.statement_chain = <<IRSpanNew(1)>>

\* Exactly one problem is reported for source s, a Duplicated problem with
\* the chain of the walk of s and one target per neighbour of node n.
OneDuplicatedAt(s, n) ==
    /\ Cardinality(ProblemsOf(s)) = 1
    /\ \A i \in ProblemsOf(s) :
        /\ taint_problems[i].problem_type.type = "Duplicated"
        /\ taint_problems[i].problem_type.targets =
              [k \in 1..Len(Neighbours(n)) |->
                  FirstSpan(EdgeConnecting(n, Neighbours(n)[k]))]
        /\ taint_problems[i].problem_type.statement_chain = PathSpans(s)

\* C21 (as claimed): the current node of a walk has more than one outgoing
\* neighbour: exactly one Duplicated problem is reported for the source and
\* the walk stops there, whatever the markings of the neighbours; the
\* targets hold one location per neighbour and the chain the edges
\* traversed from the source to the current node.
C21_FanOutInTheWalk ==
    Done => \A s \in SourceNodes : \A n \in WalkNodes(s) :
        Len(Neighbours(n)) > 1 =>
            /\ n = Last(WalkPath(s))
            /\ OneDuplicatedAt(s, n)

\* The calls of add_data_dependency_edge made for the pair (from, to), in
\* call order.
CallsFor(from, to) ==
    SelectSeq(call_log, LAMBDA c : c.from = from /\ c.to = to)

\* The calls made for the pair of nodes edge e connects.
CallsOfEdge(e) == CallsFor(Nodes[Edges[e].source], Nodes[Edges[e].target])

\* C22: in every state an edge is move-only iff every call made for its pair
\* of nodes used Move, and an edge that is not move-only is not move-only
\* after any further step.
C22_MoveOnlyIffAllMoves ==
    /\ [](\A e \in 1..Len(Edges) :
            IsMoveOnly(Edges[e]) <=>
                \A k \in 1..Len(CallsOfEdge(e)) : CallsOfEdge(e)[k].flow_type = Move)
    /\ [][\A e \in 1..Len(Edges) :
            ~IsMoveOnly(Edges[e]) => ~IsMoveOnly(data_dependency_graph'.edges[e])]_vars

\* C22 witness: one edge that took a Move and then a Used call, and so is no
\* longer move-only, next to an edge of Move calls only.
C22_Witness ==
    /\ \E e \in 1..Len(Edges) :
        /\ Len(Edges[e].instances) = 2
        /\ Edges[e].instances[1].data_flow_type = Move
        /\ Edges[e].instances[2].data_flow_type = Used
        /\ ~IsMoveOnly(Edges[e])
    /\ \E e \in 1..Len(Edges) : IsMoveOnly(Edges[e])

\* C23: the graph has at most one edge per ordered pair of nodes; the
\* instances of every edge are, in call order, the location and flow kind of
\* the calls made for its pair, so they are not empty; every call made has
\* its edge.  Each call therefore appends one instance to the edge of its
\* pair and leaves every other edge as it was.
C23_OneEdgePerPair ==
    /\ \A e, f \in 1..Len(Edges) :
        (Edges[e].source = Edges[f].source /\ Edges[e].target = Edges[f].target) => e = f
    /\ \A e \in 1..Len(Edges) :
        /\ Edges[e].instances # <<>>
        /\ Edges[e].instances =
              [k \in 1..Len(CallsOfEdge(e)) |->
                  [span |-> CallsOfEdge(e)[k].span,
                   data_flow_type |-> CallsOfEdge(e)[k].flow_type]]
    /\ \A k \in 1..Len(call_log) : \E e \in 1..Len(Edges) :
        /\ Nodes[Edges[e].source] = call_log[k].from
        /\ Nodes[Edges[e].target] = call_log[k].to

\* C23 witness: after three calls one edge holds the instances of the first
\* and the third call, another edge the instance of the second.
C23_Witness ==
    /\ Len(call_log) = 3
    /\ Len(Edges) = 2
    /\ \E e \in 1..Len(Edges) :
        /\ Len(Edges[e].instances) = 2
        /\ Edges[e].instances[1].span = 1
        /\ Edges[e].instances[2].span = 3

\* The node values that occurred as an endpoint of a call.
Endpoints ==
    {call_log[k].from : k \in 1..Len(call_log)} \cup {call_log[k].to : k \in 1..Len(call_log)}

\* C24: the identity index and the graph agree: the index knows exactly the
\* node values that occurred as an endpoint, it maps each to a node of the
\* graph that holds this value, and no two nodes of the graph hold the same
\* value.
C24_IndexAgreesWithGraph ==
    /\ DOMAIN data_dependency_graph_index = Endpoints
    /\ \A v \in DOMAIN data_dependency_graph_index :
        /\ data_dependency_graph_index[v] \in 1..Len(Nodes)
        /\ Nodes[data_dependency_graph_index[v]] = v
    /\ \A i, j \in 1..Len(Nodes) : Nodes[i] = Nodes[j] => i = j
    /\ Len(Nodes) = Cardinality(Endpoints)

\* C24 witness: three calls in which the same local occurred three times and
\* the same call site twice, in a graph of three nodes.
C24_Witness ==
    /\ Len(call_log) = 3
    /\ Len(Nodes) = 3
    /\ \A k \in 1..3 : LocalA \in {call_log[k].from, call_log[k].to}
    /\ Cardinality({k \in 1..3 : EnvVarCall \in {call_log[k].from, call_log[k].to}}) = 2

\* The terminators of the body the visitor has been through.
VisitedTerminators ==
    {current_body.statements[k] :
        k \in {x \in 1..Len(current_body.statements) :
                  x < location /\ current_body.statements[x] \in Terminators}}

\* Node n is the local of a declared parameter or of a resume argument.
ParameterOrResume(n) ==
    /\ Nodes[n].kind = "Local"
    /\ \/ Nodes[n].dst \in 1..current_body.arg_count
       \/ \E t \in VisitedTerminators : t.kind = "Yield" /\ t.place = Nodes[n].dst

\* C25: in every graph the visitor builds no edge leads into FunctionInput;
\* the edges that leave it are move-only and lead to the local of a
\* parameter or of a resume argument; and no node a walk looks at has
\* FunctionInput among its neighbours.
C25_NoEdgeIntoFunctionInput ==
    /\ \A e \in 1..Len(Edges) :
        /\ Nodes[Edges[e].target].kind # "FunctionInput"
        /\ Nodes[Edges[e].source].kind = "FunctionInput" =>
              (IsMoveOnly(Edges[e]) /\ ParameterOrResume(Edges[e].target))
    /\ pc = "walk" =>
          \A k \in 1..Len(Neighbours(Head(queue))) :
              Nodes[Neighbours(Head(queue))[k]].kind # "FunctionInput"

\* C25 witness: a walk is under way in a graph in which FunctionInput has an
\* edge to a parameter that is also the resume argument of a Yield, and
\* the walk is at that local.
C25_Witness ==
    /\ pc = "walk"
    /\ \E e \in 1..Len(Edges) :
        /\ Nodes[Edges[e].source].kind = "FunctionInput"
        /\ Len(Edges[e].instances) = 2
        /\ Edges[e].target = Head(queue)

\* The hops the walk of source s makes: none when a problem is found on the
\* edges of the source itself, else one per node of its path.
HopsMade(s) == IF HasMoveHop(s) /\ Hop(s) # s THEN Len(WalkPath(s)) ELSE 0

\* The locations of the edges from source s to the node its walk ends at.
FullPath(s) == IF HasMoveHop(s) /\ Hop(s) # s THEN PathSpans(s) ELSE <<>>

\* C26: the statement chain of every problem is, in traversal order, one
\* location per edge from the source to the node the walk was at (for a
\* loop the closing edge is not part of it); a problem found on the edges of
\* the source itself has an empty chain; the length of the chain is the
\* number of hops made.
C26_ChainIsThePath ==
    Done => \A i \in 1..Len(taint_problems) :
        /\ taint_problems[i].problem_type.statement_chain = FullPath(problem_source[i])
        /\ Len(taint_problems[i].problem_type.statement_chain) = HopsMade(problem_source[i])

\* C26 witness: a problem found after two hops, with the two locations of
\* the path as its chain, the one nearer to the source first.
C26_Witness ==
    /\ Done
    /\ \E i \in 1..Len(taint_problems) :
        /\ HopsMade(problem_source[i]) = 2
        /\ taint_problems[i].problem_type.statement_chain = <<IRSpanNew(1), IRSpanNew(2)>>

\* A node at which taint escapes: the return value, an asm block, a branch
\* condition, or a call that is not marked as a sink.
Escape(n) ==
    \/ Nodes[n].kind \in {"ReturnedToCaller", "Assembly", "ControlFlow"}
    \/ Nodes[n].kind = "FunctionCall" /\ ~HasMarking(n, "TaintSink")

\* The nodes at the end of an edge that leaves a node of the set which is
\* not marked as a sink.
Onward(set) ==
    {Edges[e].target : e \in {x \in 1..Len(Edges) :
        Edges[x].source \in set /\ ~HasMarking(Edges[x].source, "TaintSink")}}

RECURSIVE OnwardClosure(_)
OnwardClosure(set) ==
    IF Onward(set) \subseteq set THEN set ELSE OnwardClosure(set \cup Onward(set))

\* The nodes reachable from source s over one edge or more along a path
\* that does not go through a node marked as a sink.
ReachableAvoidingSinks(s) == OnwardClosure(Onward({s}))

\* C27 (as claimed): a source without a reported problem reaches no escape
\* node along a path that avoids the nodes marked as sinks; a tail call of a
\* catalog function, whose only edge leads to ReturnedToCaller, is reported.
C27_NoUnreportedEscape ==
    Done => \A s \in SourceNodes :
        ProblemsOf(s) = {} =>
            \A n \in ReachableAvoidingSinks(s) : ~Escape(n) \/ HasMarking(n, "TaintSink")

\* C28 (as claimed): at most one problem is reported per call node marked as
\* a taint source.
C28_AtMostOneProblemPerSource ==
    Done => \A s \in SourceNodes : Cardinality(ProblemsOf(s)) <= 1

\* check_data_flow has returned or has panicked.
Returned == pc \in {"done", "panic"}

\* The nodes a saturation step appends to its queue.
Enqueued == SubSeq(queue', Len(queue), Len(queue'))

\* C29: a call of check_data_flow comes to its end.  A saturation step
\* enqueues only nodes that had no marking and have one afterwards, each of
\* them once, so no node is enqueued a second time; the nodes visited by a
\* walk are distinct, and a walk dequeues at most one node more than the
\* graph has (the source, and one node per traversed edge).
C29_CheckDataFlowTerminates ==
    /\ (pc = "scan") ~> Returned
    /\ [][(pc = "saturate" /\ pc' = "saturate") =>
            /\ \A k \in 1..Len(Enqueued) :
                /\ ~IsMarked(markings, Nodes[Enqueued[k]])
                /\ IsMarked(markings', Nodes[Enqueued[k]])
            /\ \A k, l \in 1..Len(Enqueued) : Enqueued[k] = Enqueued[l] => k = l]_vars
    /\ []((pc \in {"walk", "first", "done", "panic"} /\ cur > 0) =>
            /\ \A k, l \in 1..Len(visited) : visited[k] = visited[l] => k = l
            /\ 1 + Len(edges_traversed) <= Len(Nodes) + 1)

\* C29 witness: check_data_flow has returned on a graph of three nodes in
\* which the walk came back to a visited node over its third edge, having
\* dequeued one node more than the graph has.
C29_Witness ==
    /\ pc = "done"
    /\ Len(Nodes) = 3
    /\ Len(edges_traversed) = 3
    /\ \E i \in 1..Len(taint_problems) :
          taint_problems[i].problem_type.type = "DataDependencyLoop"

\* C30 (as claimed): after enter and the drop of its guard the process is as
\* it was before enter: the working directory and every environment
\* variable named in the invocation hold what they held before.
C30_EnvironmentIsRestored ==
    epc = "dropped" =>
        /\ process_cwd = entered[1].cwd
        /\ \A key \in DOMAIN entered[1].invocation.env :
              process_env[key] = entered[1].env[key]

====
